---- MODULE Spec2Model ----
(***************************************************************************)
(* The extraction waterfall of drive-ev-datachecker: scrapeEvData and its   *)
(* three strategies (fetchFromApi, scrapeWithCheerio over fetchWithRetry,   *)
(* scrapeWithBrowser over getBrowser).  Every await of the source is a      *)
(* suspension point: one action is the synchronous code that runs between   *)
(* two awaits, triggered by the completion (or rejection, or timer) that    *)
(* resumes it.                                                              *)
(***************************************************************************)
EXTENDS Integers, Sequences, FiniteSets, TLC

\* ---------------------------------------------------------------- constants
MAX_RETRIES == 2
RETRY_DELAY_MS == 2000
RAW_TEXT_MAX == 8000
MIN_RAW_TEXT == 100

Strategies == {"api", "cheerio", "playwright"}

\* ------------------------------------------------------------------- inputs
\* The selector names a SiteConfig may carry (those the extraction reads).
SelectorNames == {"title", "price", "specsTable", "variants"}

\* Representative selector maps of a profile.
SelectorSets == {{}, {"title"}, {"variants"}, SelectorNames}

\* SiteConfig | null.  present = FALSE is the null profile; preferredStrategy
\* "" is an absent hint; apiConfig is whether an API descriptor is carried.
NoConfig ==
  [present |-> FALSE, disabled |-> FALSE, preferredStrategy |-> "",
   apiConfig |-> FALSE, selectors |-> {}]

SiteConfig ==
  [present : {TRUE}, disabled : BOOLEAN,
   preferredStrategy : {""} \cup Strategies,
   apiConfig : BOOLEAN, selectors : SelectorSets]

Configs == SiteConfig \cup {NoConfig}

\* Lengths of the whitespace-collapsed body text (or of the JSON text) that a
\* source may serve: around the 100 threshold and around the 8000 cap.
RawLens == {0, 99, 100, 101, 8001}

\* What a served document holds: for each structured field whether the
\* profile's selector (or mapped path) finds non-empty text, and the length
\* of the text left for the raw fallback.  Documents with no field, with
\* exactly one field, and with all four.
FieldSets == {{}, SelectorNames} \cup {{f} : f \in SelectorNames}

Pages ==
  {[title |-> "title" \in fs, price |-> "price" \in fs,
    specs |-> "specsTable" \in fs, variants |-> "variants" \in fs,
    rawLen |-> n] : fs \in FieldSets, n \in RawLens}

\* ScrapedData: strategy tag, which payload fields are non-empty, raw length.
EmptyResult(tag) ==
  [strategy |-> tag, title |-> FALSE, price |-> FALSE, specs |-> FALSE,
   variants |-> FALSE, rawLen |-> 0]

NoResult == EmptyResult("unset")

Min(a, b) == IF a < b THEN a ELSE b

\* ------------------------------------------------------------ pure functions
defaultOrder == <<"api", "cheerio", "playwright">>

Filter(seq, drop) ==
  LET F[i \in 0..Len(seq)] ==
        IF i = 0 THEN <<>>
        ELSE IF seq[i] = drop THEN F[i - 1] ELSE Append(F[i - 1], seq[i])
  IN F[Len(seq)]

getStrategyOrder_nofilter(config) ==
  LET preferred == IF config.present THEN config.preferredStrategy ELSE ""
  IN IF preferred = "" THEN defaultOrder ELSE <<preferred>> \o defaultOrder

getStrategyOrder(config) ==
  LET preferred == IF config.present THEN config.preferredStrategy ELSE ""
  IN IF preferred = "" THEN defaultOrder
     ELSE <<preferred>> \o Filter(defaultOrder, preferred)

\* The gate of the "api" case: config?.apiConfig && brand && model.
apiGate_descriptorOnly(config, brand, model) ==
  config.present /\ config.apiConfig

apiGate(config, brand, model) ==
  config.present /\ config.apiConfig /\ brand /\ model

\* ------------------------------------------------------------------- state
VARIABLES
  pc,              \* where the scrapeEvData call is suspended
  input,           \* [config, brand, model]: the call's arguments/profile
  order,           \* strategies, as computed by getStrategyOrder
  idx,             \* position of the for loop in order
  tried,           \* strategies the loop has entered, in sequence
  outcome,         \* per strategy: "untried" | "running" | "miss" | "hit"
  caught,          \* strategies inside which an exception was caught
  result,          \* the ScrapedData the call returned
  returns,         \* how many results the call has returned
  net,             \* network/browser activity of this call
  apiTimer,        \* abort timer of fetchFromApi
  attempt,         \* loop variable of fetchWithRetry
  attempts,        \* fetch attempts issued by fetchWithRetry in this call
  chTimer,         \* abort timer of the current fetchWithRetry attempt
  delays,          \* backoff waits of fetchWithRetry, in ms
  failed,          \* fetch attempts of this call that ended in the catch block
  extracted,       \* what the running strategy has extracted from its page
  apiEnd,          \* how the await chain of fetchFromApi ended in this call
  browserInstance, \* the shared engine: "null" | "connected" | "disconnected"
  context,         \* the call's browsing context: "none"|"open"|"closed"|"closeFailed"
  ctxRef           \* whether the local variable context is non-null

\* The engine shared by concurrent scrapeWithBrowser calls of one process.
VARIABLES
  driver,          \* entry point that runs: "none" | "server" | "script"
  proc,            \* the process: "up" | "closing" | "exited"
  calls,           \* per caller: [pc, browser, ctx] of its scrapeWithBrowser
  engines,         \* per engine id: "none"|"running"|"disconnected"|"closed"
  sharedEngine,    \* browserInstance as a reference: 0 is null, else an id
  contexts,        \* per context id: [state, owner, engine]
  closer,          \* closeBrowser: [pc, target]
  starts,          \* scrapeWithBrowser invocations so far
  overlap          \* whether an invocation started while another was running

\* One getNestedValue call.
VARIABLES
  obj,             \* the JSON value passed in
  path,            \* the path passed in, as a sequence of tokens
  gnvPc,           \* "called" | "returned"
  ret              \* what the call returned

\* One pass of the raw-text rules of both page strategies over one page.
VARIABLES
  doc,             \* the elements of the page body, in document order
  texts            \* what is left for the raw text under each strategy

\* One resolution of the source key at the head of scrapeEvData.
VARIABLES
  lookup,          \* [url, siteKey]: the arguments
  allConfigs,      \* the profiles loadAllConfigs returned, in directory order
  resolvedKey      \* [done, key, config]

\* One compareEntry call.
VARIABLES
  excelEntry,      \* the authoritative record
  scrapedResults,  \* one [source, price, specs, variants] per scraped site
  comparison       \* the ComparisonResult, once returned

\* One findMatchingKey call.
VARIABLES
  target,          \* the authoritative field name
  keys,            \* the field names one source exposes
  matchedKey       \* [done, key]

\* One normalizeValue call.
VARIABLES
  rawValue,        \* the value, a sequence of characters
  normalizedValue  \* [done, value]

callVars == <<input, order>>
frameVars == <<input, order, extracted, apiEnd>>
chVars == <<attempt, attempts, chTimer, delays, failed>>
pwVars == <<browserInstance, context, ctxRef>>
bwVars ==
  <<driver, proc, calls, engines, sharedEngine, contexts, closer, starts,
    overlap>>
gpVars == <<obj, path, gnvPc, ret>>
txVars == <<doc, texts>>
skVars == <<lookup, allConfigs, resolvedKey>>
cmVars == <<excelEntry, scrapedResults, comparison>>
alVars == <<target, keys, matchedKey>>
nvVars == <<rawValue, normalizedValue>>
fnVars == <<gpVars, txVars, skVars, cmVars, alVars, nvVars>>
wfVars ==
  <<pc, input, order, idx, tried, outcome, caught, result, returns, net,
    apiTimer, attempt, attempts, chTimer, delays, failed, extracted, apiEnd,
    browserInstance, context, ctxRef>>
vars == <<wfVars, bwVars, fnVars>>

\* Concurrent tool requests that can each be inside scrapeWithBrowser.
Callers == {"c1", "c2"}

\* Invocations of scrapeWithBrowser explored in one run of the process.
MaxStarts == 3

EngineIds == 1..MaxStarts
ContextIds == 1..MaxStarts

NoCall == [pc |-> "idle", browser |-> 0, ctx |-> 0]
NoContext == [state |-> "none", owner |-> "nobody", engine |-> 0]

\* let browserInstance = null; no call, no signal yet.
InitBrowser ==
  /\ driver = "none"
  /\ proc = "up"
  /\ calls = [c \in Callers |-> NoCall]
  /\ engines = [e \in EngineIds |-> "none"]
  /\ sharedEngine = 0
  /\ contexts = [k \in ContextIds |-> NoContext]
  /\ closer = [pc |-> "idle", target |-> 0]
  /\ starts = 0
  /\ overlap = FALSE

\* JavaScript values as tagged records.
JNull == [t |-> "null"]
JUndefined == [t |-> "undefined"]
JFunction == [t |-> "function"]
JTypeError == [t |-> "TypeError"]
JPending == [t |-> "pending"]
JNum(n) == [t |-> "number", n |-> n]
JStr(len) == [t |-> "string", len |-> len]
JObj(f) == [t |-> "object", f |-> f]
JArr(e) == [t |-> "array", e |-> e]

InitNoPath ==
  /\ obj = JNull
  /\ path = <<>>
  /\ gnvPc = "called"
  /\ ret = JPending

\* No page, no key lookup, no comparison and no field-name match under way.
InitNoText ==
  /\ doc = <<>>
  /\ texts = [cheerio |-> [done |-> FALSE], browser |-> [done |-> FALSE]]

InitNoLookup ==
  /\ lookup = [url |-> <<>>, siteKey |-> ""]
  /\ allConfigs = <<>>
  /\ resolvedKey = [done |-> FALSE]

InitNoCompare ==
  /\ excelEntry = [price |-> <<>>, specs |-> <<>>, variant |-> <<>>]
  /\ scrapedResults = <<>>
  /\ comparison = [done |-> FALSE]

InitNoMatch ==
  /\ target = <<>>
  /\ keys = <<>>
  /\ matchedKey = [done |-> FALSE]

InitNoNormalize ==
  /\ rawValue = <<>>
  /\ normalizedValue = [done |-> FALSE]

NoNet == [api |-> 0, fetch |-> 0, launch |-> 0, ctx |-> 0]

InitWaterfall ==
  /\ pc = "idle"
  /\ input = [config |-> NoConfig, brand |-> FALSE, model |-> FALSE]
  /\ order = <<>>
  /\ idx = 0
  /\ tried = <<>>
  /\ outcome = [s \in Strategies |-> "untried"]
  /\ caught = {}
  /\ result = NoResult
  /\ returns = 0
  /\ net = NoNet
  /\ apiTimer = "unset"
  /\ attempt = 0
  /\ attempts = 0
  /\ chTimer = "unset"
  /\ delays = <<>>
  /\ failed = 0
  /\ extracted = NoResult
  /\ apiEnd = "none"
  /\ browserInstance = "null"
  /\ context = "none"
  /\ ctxRef = FALSE

\* Everything but the waterfall call and the shared engine at rest.
InitNoCalls ==
  /\ InitNoPath /\ InitNoText /\ InitNoLookup /\ InitNoCompare /\ InitNoMatch
  /\ InitNoNormalize

Init == InitWaterfall /\ InitBrowser /\ InitNoCalls

\* ------------------------------------------------------------ orchestrator
\* `return result` of scrapeEvData.
Return(r) ==
  /\ result' = r
  /\ returns' = returns + 1
  /\ pc' = "returned"

\* A strategy came back null: "failed, trying next...".
Miss(s) ==
  /\ outcome' = [outcome EXCEPT ![s] = "miss"]
  /\ idx' = idx + 1
  /\ pc' = "loop"
  /\ UNCHANGED <<result, returns>>

\* A strategy came back with a result: tag it and return it.
Hit_continue(s, r) ==
  /\ outcome' = [outcome EXCEPT ![s] = "hit"]
  /\ idx' = idx + 1
  /\ pc' = "loop"
  /\ result' = r
  /\ UNCHANGED returns

Hit(s, r) ==
  /\ outcome' = [outcome EXCEPT ![s] = "hit"]
  /\ idx' = idx
  /\ Return(r)

\* scrapeEvData up to the loop: resolve the profile, short-circuit a disabled
\* one, otherwise compute the order.
isDisabled_never(cfg) == FALSE

\* config?.disabled
isDisabled(cfg) == cfg.present /\ cfg.disabled

scrapeEvData(cfg, b, m) ==
  /\ pc = "idle"
  /\ input' = [config |-> cfg, brand |-> b, model |-> m]
  /\ tried' = <<>>
  /\ outcome' = [s \in Strategies |-> "untried"]
  /\ caught' = {}
  /\ net' = NoNet
  /\ apiTimer' = "unset"
  /\ attempt' = 0
  /\ attempts' = 0
  /\ chTimer' = "unset"
  /\ delays' = <<>>
  /\ failed' = 0
  /\ extracted' = NoResult
  /\ apiEnd' = "none"
  /\ context' = "none"
  /\ ctxRef' = FALSE
  /\ UNCHANGED browserInstance
  /\ IF isDisabled(cfg)
     THEN /\ order' = <<>>
          /\ idx' = 0
          /\ result' = EmptyResult("skipped-disabled")
          /\ returns' = 1
          /\ pc' = "returned"
     ELSE /\ order' = getStrategyOrder(cfg)
          /\ idx' = 1
          /\ pc' = "loop"
          /\ result' = NoResult
          /\ returns' = 0
  /\ UNCHANGED <<bwVars, fnVars>>

Call == \E cfg \in Configs, b \in BOOLEAN, m \in BOOLEAN : scrapeEvData(cfg, b, m)

\* The caller takes the returned result and the call's frame is gone; the
\* shared engine stays as it is.
Consume ==
  /\ pc = "returned"
  /\ pc' = "idle"
  /\ input' = [config |-> NoConfig, brand |-> FALSE, model |-> FALSE]
  /\ order' = <<>>
  /\ idx' = 0
  /\ tried' = <<>>
  /\ outcome' = [s \in Strategies |-> "untried"]
  /\ caught' = {}
  /\ result' = NoResult
  /\ returns' = 0
  /\ net' = NoNet
  /\ apiTimer' = "unset"
  /\ attempt' = 0
  /\ attempts' = 0
  /\ chTimer' = "unset"
  /\ delays' = <<>>
  /\ failed' = 0
  /\ extracted' = NoResult
  /\ apiEnd' = "none"
  /\ context' = "none"
  /\ ctxRef' = FALSE
  /\ UNCHANGED browserInstance
  /\ UNCHANGED <<bwVars, fnVars>>

\* The loop is exhausted: every strategy missed.
ReturnNone_early ==
  /\ pc = "loop"
  /\ idx > 1
  /\ Return(EmptyResult("none"))
  /\ UNCHANGED <<frameVars, idx, tried, outcome, caught, net, apiTimer, chVars,
                 pwVars>>
  /\ UNCHANGED <<bwVars, fnVars>>

ReturnNone ==
  /\ pc = "loop"
  /\ idx > Len(order)
  /\ Return(EmptyResult("none"))
  /\ UNCHANGED <<frameVars, idx, tried, outcome, caught, net, apiTimer, chVars,
                 pwVars>>
  /\ UNCHANGED <<bwVars, fnVars>>

\* ------------------------------------------------------------ API strategy
\* case "api": either fetchFromApi up to its `await fetch`, or the skip.
TryApi ==
  /\ pc = "loop"
  /\ idx <= Len(order)
  /\ order[idx] = "api"
  /\ extracted' = NoResult
  /\ apiEnd' = "none"
  /\ tried' = Append(tried, "api")
  /\ IF apiGate(input.config, input.brand, input.model)
     THEN /\ outcome' = [outcome EXCEPT !["api"] = "running"]
          /\ apiTimer' = "armed"
          /\ net' = [net EXCEPT !.api = @ + 1]
          /\ pc' = "api_fetch"
          /\ UNCHANGED <<idx, result, returns>>
     ELSE /\ Miss("api")
          /\ UNCHANGED <<apiTimer, net>>
  /\ UNCHANGED <<callVars, caught, chVars, pwVars>>
  /\ UNCHANGED <<bwVars, fnVars>>

\* fetch resolved: clearTimeout; non-2xx returns null, 2xx goes on to
\* `await response.json()`.
ApiFetchResolves ==
  /\ pc = "api_fetch"
  /\ apiTimer' = "cleared"
  /\ \E ok \in BOOLEAN :
       IF ok
       THEN /\ pc' = "api_body"
            /\ UNCHANGED <<idx, outcome, result, returns, apiEnd>>
       ELSE /\ apiEnd' = "non2xx"
            /\ Miss("api")
  /\ UNCHANGED <<callVars, extracted, tried, caught, net, chVars, pwVars>>
  /\ UNCHANGED <<bwVars, fnVars>>

\* fetch rejected with a transport error: the catch returns null.  The timer
\* is not cleared on this path.
ApiFetchRejects ==
  /\ pc = "api_fetch"
  /\ caught' = caught \cup {"api"}
  /\ apiEnd' = "transport"
  /\ Miss("api")
  /\ UNCHANGED <<callVars, extracted, tried, net, apiTimer, chVars, pwVars>>
  /\ UNCHANGED <<bwVars, fnVars>>

\* The 10 s timer fires: controller.abort().  A pending fetch rejects and the
\* catch returns null; once the fetch has settled the abort has no effect.
ApiTimerFires ==
  /\ apiTimer = "armed"
  /\ apiTimer' = "fired"
  /\ IF pc = "api_fetch"
     THEN /\ caught' = caught \cup {"api"}
          /\ apiEnd' = "timeout"
          /\ Miss("api")
     ELSE UNCHANGED <<pc, idx, outcome, caught, result, returns, apiEnd>>
  /\ UNCHANGED <<callVars, extracted, tried, net, chVars, pwVars>>
  /\ UNCHANGED <<bwVars, fnVars>>

\* The mapped fields of a parsed body; all four empty is "no usable data".
\* rawText is JSON.stringify(json), not truncated.
apiResult(json) ==
  [strategy |-> "api", title |-> json.title, price |-> json.price,
   specs |-> json.specs, variants |-> json.variants, rawLen |-> json.rawLen]

apiUsable_ignoresVariants(r) == r.title \/ r.price \/ r.specs

apiUsable(r) == r.title \/ r.price \/ r.specs \/ r.variants

\* response.json() resolved.
ApiBodyParsed ==
  /\ pc = "api_body"
  /\ apiEnd' = "parsed"
  /\ \E json \in Pages :
       /\ extracted' = apiResult(json)
       /\ IF apiUsable(apiResult(json))
          THEN Hit("api", apiResult(json))
          ELSE Miss("api")
  /\ UNCHANGED <<callVars, tried, caught, net, apiTimer, chVars, pwVars>>
  /\ UNCHANGED <<bwVars, fnVars>>

\* response.json() rejected (unparseable body, broken stream): catch, null.
ApiBodyRejects ==
  /\ pc = "api_body"
  /\ caught' = caught \cup {"api"}
  /\ apiEnd' = "unparseable"
  /\ Miss("api")
  /\ UNCHANGED <<callVars, extracted, tried, net, apiTimer, chVars, pwVars>>
  /\ UNCHANGED <<bwVars, fnVars>>

\* ---------------------------------------------------- static-HTML strategy
\* What scrapeWithCheerio extracts from a parsed page: structured fields only
\* through the profile's selectors, raw text cut to 8000 characters.
cheerioResult(page, config) ==
  [strategy |-> "cheerio",
   title |-> config.present /\ "title" \in config.selectors /\ page.title,
   price |-> config.present /\ "price" \in config.selectors /\ page.price,
   specs |-> config.present /\ "specsTable" \in config.selectors /\ page.specs,
   variants |-> config.present /\ "variants" \in config.selectors /\ page.variants,
   rawLen |-> Min(page.rawLen, RAW_TEXT_MAX)]

hasData(r) == r.title \/ r.price \/ r.specs \/ r.rawLen > MIN_RAW_TEXT

\* The backoff of the catch block after failed attempt number `a` (0-based).
backoffDelay(a) == RETRY_DELAY_MS * (a + 1)

mayRetry_always(a) == a < MAX_RETRIES + 1

\* attempt < retries
mayRetry(a) == a < MAX_RETRIES

\* case "cheerio": scrapeWithCheerio -> fetchWithRetry, first attempt, up to
\* its `await fetch`.
TryCheerio ==
  /\ pc = "loop"
  /\ idx <= Len(order)
  /\ order[idx] = "cheerio"
  /\ extracted' = NoResult
  /\ apiEnd' = "none"
  /\ tried' = Append(tried, "cheerio")
  /\ outcome' = [outcome EXCEPT !["cheerio"] = "running"]
  /\ attempt' = 0
  /\ attempts' = 1
  /\ chTimer' = "armed"
  /\ delays' = <<>>
  /\ failed' = 0
  /\ net' = [net EXCEPT !.fetch = @ + 1]
  /\ pc' = "ch_fetch"
  /\ UNCHANGED <<callVars, idx, caught, result, returns, apiTimer, pwVars>>
  /\ UNCHANGED <<bwVars, fnVars>>

\* The catch block of fetchWithRetry: back off and retry while attempts are
\* left; otherwise the loop ends, fetchWithRetry returns "" and
\* scrapeWithCheerio returns null.
fetchWithRetryCatch ==
  /\ caught' = caught \cup {"cheerio"}
  /\ failed' = failed + 1
  /\ IF mayRetry(attempt)
     THEN /\ delays' = Append(delays, backoffDelay(attempt))
          /\ pc' = "ch_backoff"
          /\ UNCHANGED <<idx, outcome, result, returns>>
     ELSE /\ Miss("cheerio")
          /\ UNCHANGED delays

\* fetch resolved: clearTimeout; non-2xx throws into the catch, 2xx goes on
\* to `await response.text()`.
ChFetchResolves ==
  /\ pc = "ch_fetch"
  /\ chTimer' = "cleared"
  /\ \E ok \in BOOLEAN :
       IF ok
       THEN /\ pc' = "ch_body"
            /\ UNCHANGED <<idx, outcome, caught, result, returns, delays,
                           failed>>
       ELSE fetchWithRetryCatch
  /\ UNCHANGED <<frameVars, tried, net, apiTimer, attempt, attempts, pwVars>>
  /\ UNCHANGED <<bwVars, fnVars>>

\* fetch rejected with a transport error; the timer is not cleared.
ChFetchRejects ==
  /\ pc = "ch_fetch"
  /\ fetchWithRetryCatch
  /\ UNCHANGED <<frameVars, tried, net, apiTimer, attempt, attempts, chTimer,
                 pwVars>>
  /\ UNCHANGED <<bwVars, fnVars>>

\* The 15 s timer of the current attempt fires: controller.abort().  A
\* pending fetch rejects into the catch; otherwise nothing happens.
ChTimerFires ==
  /\ chTimer = "armed"
  /\ chTimer' = "fired"
  /\ IF pc = "ch_fetch"
     THEN fetchWithRetryCatch
     ELSE UNCHANGED <<pc, idx, outcome, caught, result, returns, delays,
                     failed>>
  /\ UNCHANGED <<frameVars, tried, net, apiTimer, attempt, attempts, pwVars>>
  /\ UNCHANGED <<bwVars, fnVars>>

\* The backoff timer fires: the next iteration arms a new abort timer and
\* fetches again.
ChBackoffElapsed ==
  /\ pc = "ch_backoff"
  /\ attempt' = attempt + 1
  /\ attempts' = attempts + 1
  /\ chTimer' = "armed"
  /\ net' = [net EXCEPT !.fetch = @ + 1]
  /\ pc' = "ch_fetch"
  /\ UNCHANGED <<frameVars, idx, tried, outcome, caught, result,
                 returns, apiTimer, delays, failed, pwVars>>
  /\ UNCHANGED <<bwVars, fnVars>>

\* An empty body waited out and fetched again.
ChBodyRead_retryEmpty ==
  /\ pc = "ch_body"
  /\ \E empty \in BOOLEAN, page \in Pages :
       IF empty
       THEN /\ extracted' = NoResult
            /\ IF mayRetry(attempt)
               THEN /\ delays' = Append(delays, backoffDelay(attempt))
                    /\ pc' = "ch_backoff"
                    /\ UNCHANGED <<idx, outcome, result, returns>>
               ELSE /\ Miss("cheerio")
                    /\ UNCHANGED delays
       ELSE /\ extracted' = cheerioResult(page, input.config)
            /\ UNCHANGED delays
            /\ IF hasData(cheerioResult(page, input.config))
               THEN Hit("cheerio", cheerioResult(page, input.config))
               ELSE Miss("cheerio")
  /\ UNCHANGED <<callVars, apiEnd, tried, caught, net, apiTimer, attempt,
                 attempts, chTimer, failed, pwVars>>
  /\ UNCHANGED <<bwVars, fnVars>>

\* response.text() resolved.  An empty body is a miss without retry; a
\* non-empty one is parsed and kept only if hasData.
ChBodyRead ==
  /\ pc = "ch_body"
  /\ \E empty \in BOOLEAN, page \in Pages :
       IF empty
       THEN /\ extracted' = NoResult
            /\ Miss("cheerio")
       ELSE /\ extracted' = cheerioResult(page, input.config)
            /\ IF hasData(cheerioResult(page, input.config))
               THEN Hit("cheerio", cheerioResult(page, input.config))
               ELSE Miss("cheerio")
  /\ UNCHANGED <<callVars, apiEnd, tried, caught, net, apiTimer, chVars, pwVars>>
  /\ UNCHANGED <<bwVars, fnVars>>

\* response.text() resolved but parsing/extraction threw: the catch of
\* scrapeWithCheerio returns null.
ChExtractThrows ==
  /\ pc = "ch_body"
  /\ caught' = caught \cup {"cheerio"}
  /\ Miss("cheerio")
  /\ UNCHANGED <<frameVars, tried, net, apiTimer, chVars, pwVars>>
  /\ UNCHANGED <<bwVars, fnVars>>

\* response.text() rejected: the catch block of fetchWithRetry.
ChBodyRejects ==
  /\ pc = "ch_body"
  /\ fetchWithRetryCatch
  /\ UNCHANGED <<frameVars, tried, net, apiTimer, attempt, attempts, chTimer,
                 pwVars>>
  /\ UNCHANGED <<bwVars, fnVars>>

\* ------------------------------------------------ headless-browser strategy
\* What page.evaluate returns; scrapeEvData tags it "playwright".
browserResult(page, config) ==
  [strategy |-> "playwright",
   title |-> config.present /\ "title" \in config.selectors /\ page.title,
   price |-> config.present /\ "price" \in config.selectors /\ page.price,
   specs |-> config.present /\ "specsTable" \in config.selectors /\ page.specs,
   variants |-> config.present /\ "variants" \in config.selectors /\ page.variants,
   rawLen |-> Min(page.rawLen, RAW_TEXT_MAX)]

\* !browserInstance || !browserInstance.isConnected()
needsLaunch == browserInstance # "connected"

\* case "playwright": scrapeWithBrowser -> getBrowser, up to the first await
\* (chromium.launch, or browser.newContext when the engine is reused).
TryPlaywright ==
  /\ pc = "loop"
  /\ idx <= Len(order)
  /\ order[idx] = "playwright"
  /\ extracted' = NoResult
  /\ apiEnd' = "none"
  /\ tried' = Append(tried, "playwright")
  /\ outcome' = [outcome EXCEPT !["playwright"] = "running"]
  /\ context' = "none"
  /\ ctxRef' = FALSE
  /\ IF needsLaunch
     THEN /\ pc' = "pw_launch"
          /\ net' = [net EXCEPT !.launch = @ + 1]
     ELSE /\ pc' = "pw_newContext"
          /\ UNCHANGED net
  /\ UNCHANGED <<callVars, idx, caught, result, returns, apiTimer, chVars,
                 browserInstance>>
  /\ UNCHANGED <<bwVars, fnVars>>

scrapeWithBrowserCatch_rethrow ==
  /\ pc' = "thrown"
  /\ UNCHANGED <<idx, outcome, caught, result, returns>>

scrapeWithBrowserCatch_noclose ==
  /\ caught' = caught \cup {"playwright"}
  /\ Miss("playwright")

\* The catch block of scrapeWithBrowser: close the context if one is held
\* (awaited), then return null.
scrapeWithBrowserCatch ==
  /\ caught' = caught \cup {"playwright"}
  /\ IF ctxRef
     THEN /\ pc' = "pw_cleanup"
          /\ UNCHANGED <<idx, outcome, result, returns>>
     ELSE Miss("playwright")

PwLaunchResolves ==
  /\ pc = "pw_launch"
  /\ browserInstance' = "connected"
  /\ pc' = "pw_newContext"
  /\ UNCHANGED <<frameVars, idx, tried, outcome, caught, result, returns, net,
                 apiTimer, chVars, context, ctxRef>>
  /\ UNCHANGED <<bwVars, fnVars>>

PwLaunchRejects ==
  /\ pc = "pw_launch"
  /\ scrapeWithBrowserCatch
  /\ UNCHANGED <<frameVars, tried, net, apiTimer, chVars, pwVars>>
  /\ UNCHANGED <<bwVars, fnVars>>

\* The driver's launch timeout fires: launch rejects into the catch.
PwLaunchTimeout ==
  /\ pc = "pw_launch"
  /\ scrapeWithBrowserCatch
  /\ UNCHANGED <<frameVars, tried, net, apiTimer, chVars, pwVars>>
  /\ UNCHANGED <<bwVars, fnVars>>

PwNewContextResolves ==
  /\ pc = "pw_newContext"
  /\ context' = "open"
  /\ ctxRef' = TRUE
  /\ net' = [net EXCEPT !.ctx = @ + 1]
  /\ pc' = "pw_newPage"
  /\ UNCHANGED <<frameVars, idx, tried, outcome, caught, result, returns,
                 apiTimer, chVars, browserInstance>>
  /\ UNCHANGED <<bwVars, fnVars>>

PwNewContextRejects ==
  /\ pc = "pw_newContext"
  /\ scrapeWithBrowserCatch
  /\ UNCHANGED <<frameVars, tried, net, apiTimer, chVars, pwVars>>
  /\ UNCHANGED <<bwVars, fnVars>>

\* context.newPage() resolved: setExtraHTTPHeaders is awaited next.
PwNewPageResolves ==
  /\ pc = "pw_newPage"
  /\ pc' = "pw_headers"
  /\ UNCHANGED <<frameVars, idx, tried, outcome, caught, result, returns, net,
                 apiTimer, chVars, pwVars>>
  /\ UNCHANGED <<bwVars, fnVars>>

\* setExtraHTTPHeaders resolved: page.goto with its 30 s timeout.
PwHeadersResolves ==
  /\ pc = "pw_headers"
  /\ pc' = "pw_goto"
  /\ UNCHANGED <<frameVars, idx, tried, outcome, caught, result, returns, net,
                 apiTimer, chVars, pwVars>>
  /\ UNCHANGED <<bwVars, fnVars>>

\* DOM ready: the fixed 2 s settle wait.
PwGotoResolves ==
  /\ pc = "pw_goto"
  /\ pc' = "pw_settle"
  /\ UNCHANGED <<frameVars, idx, tried, outcome, caught, result, returns, net,
                 apiTimer, chVars, pwVars>>
  /\ UNCHANGED <<bwVars, fnVars>>

\* The navigation timeout fires: goto rejects into the catch.
PwGotoTimeout ==
  /\ pc = "pw_goto"
  /\ scrapeWithBrowserCatch
  /\ UNCHANGED <<frameVars, tried, net, apiTimer, chVars, pwVars>>
  /\ UNCHANGED <<bwVars, fnVars>>

\* The settle timer fires: wait for the title selector if one is configured,
\* else evaluate.
PwSettleElapsed ==
  /\ pc = "pw_settle"
  /\ pc' = IF input.config.present /\ "title" \in input.config.selectors
           THEN "pw_waitSel" ELSE "pw_eval"
  /\ UNCHANGED <<frameVars, idx, tried, outcome, caught, result, returns, net,
                 apiTimer, chVars, pwVars>>
  /\ UNCHANGED <<bwVars, fnVars>>

\* waitForSelector resolved, or rejected for a reason other than its
\* timeout: either way the inner try/catch goes on to page.evaluate.
PwWaitSelSettles ==
  /\ pc = "pw_waitSel"
  /\ pc' = "pw_eval"
  /\ UNCHANGED <<frameVars, idx, tried, outcome, caught, result, returns, net,
                 apiTimer, chVars, pwVars>>
  /\ UNCHANGED <<bwVars, fnVars>>

\* The 3 s selector timeout fires: tolerated.
PwWaitSelTimeout ==
  /\ pc = "pw_waitSel"
  /\ pc' = "pw_eval"
  /\ UNCHANGED <<frameVars, idx, tried, outcome, caught, result, returns, net,
                 apiTimer, chVars, pwVars>>
  /\ UNCHANGED <<bwVars, fnVars>>

\* newPage, setExtraHTTPHeaders, goto, waitForTimeout or evaluate rejected
\* (page crashed, engine gone, script error): the catch block.
PwOpRejects ==
  /\ pc \in {"pw_newPage", "pw_headers", "pw_goto", "pw_settle", "pw_eval"}
  /\ scrapeWithBrowserCatch
  /\ UNCHANGED <<frameVars, tried, net, apiTimer, chVars, pwVars>>
  /\ UNCHANGED <<bwVars, fnVars>>

\* page.evaluate resolved: `await context.close()` on the success path.
PwEvalResolves ==
  /\ pc = "pw_eval"
  /\ \E page \in Pages : extracted' = browserResult(page, input.config)
  /\ pc' = "pw_close"
  /\ UNCHANGED <<callVars, apiEnd, idx, tried, outcome, caught, result, returns, net,
                 apiTimer, chVars, pwVars>>
  /\ UNCHANGED <<bwVars, fnVars>>

\* The success-path close resolved: context = null, and what was evaluated
\* is returned whatever it holds.
PwCloseResolves ==
  /\ pc = "pw_close"
  /\ context' = "closed"
  /\ ctxRef' = FALSE
  /\ Hit("playwright", extracted)
  /\ UNCHANGED <<frameVars, tried, caught, net, apiTimer, chVars,
                 browserInstance>>
  /\ UNCHANGED <<bwVars, fnVars>>

\* The success-path close rejected: the catch block (where `extracted` is
\* out of scope) closes again.
PwCloseRejects ==
  /\ pc = "pw_close"
  /\ context' = "closeFailed"
  /\ caught' = caught \cup {"playwright"}
  /\ pc' = "pw_cleanup"
  /\ extracted' = NoResult
  /\ UNCHANGED <<callVars, apiEnd, idx, tried, outcome, result, returns, net,
                 apiTimer, chVars, browserInstance, ctxRef>>
  /\ UNCHANGED <<bwVars, fnVars>>

\* The catch-path close settled (its own rejection is ignored): return null.
PwCleanupSettles ==
  /\ pc = "pw_cleanup"
  /\ \E closed \in BOOLEAN :
       context' = IF closed THEN "closed" ELSE "closeFailed"
  /\ Miss("playwright")
  /\ UNCHANGED <<frameVars, tried, caught, net, apiTimer, chVars,
                 browserInstance, ctxRef>>
  /\ UNCHANGED <<bwVars, fnVars>>

\* The engine process dies or loses its connection.
EngineDisconnects ==
  /\ browserInstance = "connected"
  /\ browserInstance' = "disconnected"
  /\ UNCHANGED <<pc, frameVars, idx, tried, outcome, caught, result, returns,
                 net, apiTimer, chVars, context, ctxRef>>
  /\ UNCHANGED <<bwVars, fnVars>>

\* ------------------------------------------------------------ specification
\* Synchronous continuations of the call itself.
ProgramStep == ReturnNone \/ TryApi \/ TryCheerio \/ TryPlaywright

\* Timers set by the code (setTimeout) or passed to the browser driver as
\* timeouts.
TimerStep ==
  \/ ApiTimerFires
  \/ ChTimerFires
  \/ ChBackoffElapsed
  \/ PwLaunchTimeout
  \/ PwGotoTimeout
  \/ PwSettleElapsed
  \/ PwWaitSelTimeout

\* Completions delivered by the network or the browser driver.
IoStep ==
  \/ ApiFetchResolves
  \/ ApiFetchRejects
  \/ ApiBodyParsed
  \/ ApiBodyRejects
  \/ ChFetchResolves
  \/ ChFetchRejects
  \/ ChBodyRead
  \/ ChExtractThrows
  \/ ChBodyRejects
  \/ PwLaunchResolves
  \/ PwLaunchRejects
  \/ PwNewContextResolves
  \/ PwNewContextRejects
  \/ PwNewPageResolves
  \/ PwHeadersResolves
  \/ PwGotoResolves
  \/ PwWaitSelSettles
  \/ PwOpRejects
  \/ PwEvalResolves
  \/ PwCloseResolves
  \/ PwCloseRejects
  \/ PwCleanupSettles
  \/ EngineDisconnects

Next == Call \/ Consume \/ ProgramStep \/ TimerStep \/ IoStep

Spec == Init /\ [][Next]_vars

\* The event loop runs every ready continuation and every armed timer
\* eventually fires; nothing obliges the network or the browser to answer.
FairSpec == Spec /\ WF_vars(ProgramStep) /\ WF_vars(TimerStep)

\* ------------------------------------------- shared engine, many callers
\* One process, several scrapeWithBrowser calls in flight, the module-level
\* browserInstance, and the two entry points of the repository: the MCP
\* server (index.ts main) and the flow script (test-full-flow.ts).

InFlight(c) == calls[c].pc # "idle"

\* Ids are handed out in order of creation.
FreshEngine == Cardinality({e \in EngineIds : engines[e] # "none"}) + 1
FreshContext == Cardinality({k \in ContextIds : contexts[k].state # "none"}) + 1

\* What happens to its contexts when an engine goes away.
DropContexts(e) ==
  [k \in ContextIds |->
     IF contexts[k].engine = e /\ contexts[k].state = "open"
     THEN [contexts[k] EXCEPT !.state = "lost"]
     ELSE contexts[k]]

\* The effect of one context.close() on the context it is called on.
CloseContext(k, as) ==
  [contexts EXCEPT ![k].state = IF @ \in {"open", "closeFailed"} THEN as ELSE @]

\* main(): connect the transport, register shutdown on SIGINT and SIGTERM.
main ==
  /\ driver = "none"
  /\ driver' = "server"
  /\ UNCHANGED <<proc, calls, engines, sharedEngine, contexts, closer, starts,
                 overlap, wfVars, fnVars>>

\* runFullFlow(): scrapes its sites one after the other, then closeBrowser.
runFullFlow ==
  /\ driver = "none"
  /\ driver' = "script"
  /\ UNCHANGED <<proc, calls, engines, sharedEngine, contexts, closer, starts,
                 overlap, wfVars, fnVars>>

notConnected_always == TRUE

\* !browserInstance || !browserInstance.isConnected()
notConnected == sharedEngine = 0 \/ engines[sharedEngine] # "running"

\* scrapeWithBrowser up to its first await: getBrowser either starts
\* chromium.launch or hands back browserInstance, on which newContext is
\* called.  The server takes requests concurrently; the script awaits each
\* call before the next.
BwStart(c) ==
  /\ driver # "none"
  /\ proc = "up"
  /\ ~InFlight(c)
  /\ starts < MaxStarts
  /\ driver = "script" =>
       /\ \A d \in Callers : ~InFlight(d)
       /\ closer.pc = "idle"
  /\ starts' = starts + 1
  /\ overlap' = (overlap \/ \E d \in Callers \ {c} : InFlight(d))
  /\ calls' = [calls EXCEPT ![c] =
                 IF notConnected
                 THEN [pc |-> "launch", browser |-> 0, ctx |-> 0]
                 ELSE [pc |-> "newContext", browser |-> sharedEngine,
                       ctx |-> 0]]
  /\ UNCHANGED <<driver, proc, engines, sharedEngine, contexts, closer,
                 wfVars, fnVars>>

BwLaunchResolves_once(c) ==
  /\ proc # "exited"
  /\ calls[c].pc = "launch"
  /\ IF notConnected
     THEN /\ engines' = [engines EXCEPT ![FreshEngine] = "running"]
          /\ sharedEngine' = FreshEngine
          /\ calls' = [calls EXCEPT ![c] = [pc |-> "newContext",
                                            browser |-> FreshEngine,
                                            ctx |-> 0]]
     ELSE /\ calls' = [calls EXCEPT ![c] = [pc |-> "newContext",
                                            browser |-> sharedEngine,
                                            ctx |-> 0]]
          /\ UNCHANGED <<engines, sharedEngine>>
  /\ UNCHANGED <<driver, proc, contexts, closer, starts, overlap, wfVars,
                 fnVars>>

\* chromium.launch resolved: browserInstance = <the new engine>, returned to
\* the caller, which calls newContext on it.
BwLaunchResolves(c) ==
  /\ proc # "exited"
  /\ calls[c].pc = "launch"
  /\ engines' = [engines EXCEPT ![FreshEngine] = "running"]
  /\ sharedEngine' = FreshEngine
  /\ calls' = [calls EXCEPT ![c] = [pc |-> "newContext",
                                    browser |-> FreshEngine, ctx |-> 0]]
  /\ UNCHANGED <<driver, proc, contexts, closer, starts, overlap, wfVars,
                 fnVars>>

\* chromium.launch rejected: the catch block holds no context, returns null.
BwLaunchRejects(c) ==
  /\ proc # "exited"
  /\ calls[c].pc = "launch"
  /\ calls' = [calls EXCEPT ![c] = NoCall]
  /\ UNCHANGED <<driver, proc, engines, sharedEngine, contexts, closer,
                 starts, overlap, wfVars, fnVars>>

\* browser.newContext resolved on a running engine.
BwNewContextResolves(c) ==
  /\ proc # "exited"
  /\ calls[c].pc = "newContext"
  /\ engines[calls[c].browser] = "running"
  /\ contexts' = [contexts EXCEPT ![FreshContext] =
                    [state |-> "open", owner |-> c,
                     engine |-> calls[c].browser]]
  /\ calls' = [calls EXCEPT ![c].pc = "page", ![c].ctx = FreshContext]
  /\ UNCHANGED <<driver, proc, engines, sharedEngine, closer, starts,
                 overlap, wfVars, fnVars>>

\* browser.newContext rejected (the engine is gone, or any other error).
BwNewContextRejects(c) ==
  /\ proc # "exited"
  /\ calls[c].pc = "newContext"
  /\ calls' = [calls EXCEPT ![c] = NoCall]
  /\ UNCHANGED <<driver, proc, engines, sharedEngine, contexts, closer,
                 starts, overlap, wfVars, fnVars>>

\* newPage ... page.evaluate all resolved: `await context.close()`.
BwPageDone(c) ==
  /\ proc # "exited"
  /\ calls[c].pc = "page"
  /\ contexts[calls[c].ctx].state = "open"
  /\ calls' = [calls EXCEPT ![c].pc = "close"]
  /\ UNCHANGED <<driver, proc, engines, sharedEngine, contexts, closer,
                 starts, overlap, wfVars, fnVars>>

\* One of newPage ... page.evaluate rejected or timed out: the catch block
\* finds context non-null and awaits context.close().catch(() => {}).
BwPageFails(c) ==
  /\ proc # "exited"
  /\ calls[c].pc = "page"
  /\ calls' = [calls EXCEPT ![c].pc = "cleanup"]
  /\ UNCHANGED <<driver, proc, engines, sharedEngine, contexts, closer,
                 starts, overlap, wfVars, fnVars>>

BwCloseResolves_closesAll(c) ==
  /\ proc # "exited"
  /\ calls[c].pc = "close"
  /\ contexts' = [k \in ContextIds |->
                    IF contexts[k].engine = calls[c].browser
                       /\ contexts[k].state \in {"open", "closeFailed"}
                    THEN [contexts[k] EXCEPT !.state = "closed"]
                    ELSE contexts[k]]
  /\ calls' = [calls EXCEPT ![c] = NoCall]
  /\ UNCHANGED <<driver, proc, engines, sharedEngine, closer, starts,
                 overlap, wfVars, fnVars>>

\* The success-path close resolved: context = null, return the result.
BwCloseResolves(c) ==
  /\ proc # "exited"
  /\ calls[c].pc = "close"
  /\ contexts' = CloseContext(calls[c].ctx, "closed")
  /\ calls' = [calls EXCEPT ![c] = NoCall]
  /\ UNCHANGED <<driver, proc, engines, sharedEngine, closer, starts,
                 overlap, wfVars, fnVars>>

\* The success-path close rejected: the catch block closes again.
BwCloseRejects(c) ==
  /\ proc # "exited"
  /\ calls[c].pc = "close"
  /\ contexts' = CloseContext(calls[c].ctx, "closeFailed")
  /\ calls' = [calls EXCEPT ![c].pc = "cleanup"]
  /\ UNCHANGED <<driver, proc, engines, sharedEngine, closer, starts,
                 overlap, wfVars, fnVars>>

BwCleanupSettles_closesEngine(c) ==
  /\ proc # "exited"
  /\ calls[c].pc = "cleanup"
  /\ \E as \in {"closed", "closeFailed"} :
       contexts' = CloseContext(calls[c].ctx, as)
  /\ engines' = [engines EXCEPT ![calls[c].browser] = "closed"]
  /\ calls' = [calls EXCEPT ![c] = NoCall]
  /\ UNCHANGED <<driver, proc, sharedEngine, closer, starts, overlap,
                 wfVars, fnVars>>

\* The catch-path close settled, its own error ignored: return null.
BwCleanupSettles(c) ==
  /\ proc # "exited"
  /\ calls[c].pc = "cleanup"
  /\ \E as \in {"closed", "closeFailed"} :
       contexts' = CloseContext(calls[c].ctx, as)
  /\ calls' = [calls EXCEPT ![c] = NoCall]
  /\ UNCHANGED <<driver, proc, engines, sharedEngine, closer, starts,
                 overlap, wfVars, fnVars>>

\* An engine process dies or loses its connection; isConnected() turns false.
BwEngineDisconnects(e) ==
  /\ proc # "exited"
  /\ engines[e] = "running"
  /\ engines' = [engines EXCEPT ![e] = "disconnected"]
  /\ contexts' = DropContexts(e)
  /\ UNCHANGED <<driver, proc, calls, sharedEngine, closer, starts, overlap,
                 wfVars, fnVars>>

\* closeBrowser up to its await: nothing to do unless browserInstance is set
\* and connected.  runFullFlow calls it after its last scrape; a module that
\* imports the export may call it at any time.
closeBrowser ==
  /\ driver \in {"script", "importer"}
  /\ proc = "up"
  /\ closer.pc = "idle"
  /\ driver = "script" => \A c \in Callers : ~InFlight(c)
  /\ closer' = IF notConnected
               THEN [pc |-> "done", target |-> 0]
               ELSE [pc |-> "closing", target |-> sharedEngine]
  /\ UNCHANGED <<driver, proc, calls, engines, sharedEngine, contexts, starts,
                 overlap, wfVars, fnVars>>

\* browserInstance.close() resolved: the engine is down with its contexts;
\* browserInstance = null.
CloseBrowserResolves ==
  /\ closer.pc = "closing"
  /\ proc # "exited"
  /\ engines' = [engines EXCEPT ![closer.target] =
                   IF @ = "running" THEN "closed" ELSE @]
  /\ contexts' = DropContexts(closer.target)
  /\ sharedEngine' = 0
  /\ closer' = [closer EXCEPT !.pc = "done"]
  /\ UNCHANGED <<driver, proc, calls, starts, overlap, wfVars, fnVars>>

\* browserInstance.close() rejected: closeBrowser throws, runFullFlow's
\* catch handler calls process.exit(1).
CloseBrowserRejects ==
  /\ closer.pc = "closing"
  /\ proc # "exited"
  /\ closer' = [closer EXCEPT !.pc = "failed"]
  /\ proc' = IF driver = "script" THEN "exited" ELSE proc
  /\ UNCHANGED <<driver, calls, engines, sharedEngine, contexts, starts,
                 overlap, wfVars, fnVars>>

\* runFullFlow returned after closeBrowser; nothing keeps the process alive.
ScriptEnds ==
  /\ driver = "script"
  /\ proc = "up"
  /\ closer.pc = "done"
  /\ proc' = "exited"
  /\ UNCHANGED <<driver, calls, engines, sharedEngine, contexts, closer,
                 starts, overlap, wfVars, fnVars>>

\* SIGINT or SIGTERM arrives: shutdown() starts `await server.close()`.
shutdown(sig) ==
  /\ driver = "server"
  /\ proc = "up"
  /\ proc' = "closing"
  /\ UNCHANGED <<driver, calls, engines, sharedEngine, contexts, closer,
                 starts, overlap, wfVars, fnVars>>

Signal == \E sig \in {"SIGINT", "SIGTERM"} : shutdown(sig)

\* server.close() resolved: process.exit(0).  Nothing else is done first.
ShutdownExits ==
  /\ driver = "server"
  /\ proc = "closing"
  /\ proc' = "exited"
  /\ UNCHANGED <<driver, calls, engines, sharedEngine, contexts, closer,
                 starts, overlap, wfVars, fnVars>>

BwCallStep(c) ==
  \/ BwStart(c)
  \/ BwLaunchResolves(c)
  \/ BwLaunchRejects(c)
  \/ BwNewContextResolves(c)
  \/ BwNewContextRejects(c)
  \/ BwPageDone(c)
  \/ BwPageFails(c)
  \/ BwCloseResolves(c)
  \/ BwCloseRejects(c)
  \/ BwCleanupSettles(c)

NextBrowser ==
  \/ main
  \/ runFullFlow
  \/ \E c \in Callers : BwCallStep(c)
  \/ \E e \in EngineIds : BwEngineDisconnects(e)
  \/ closeBrowser
  \/ CloseBrowserResolves
  \/ CloseBrowserRejects
  \/ ScriptEnds
  \/ Signal
  \/ ShutdownExits

SpecBrowser == Init /\ [][NextBrowser]_vars

\* A module importing scrapeWithBrowser and closeBrowser, calling them in
\* any interleaving.
InitImporter ==
  /\ InitWaterfall
  /\ InitNoCalls
  /\ driver = "importer"
  /\ proc = "up"
  /\ calls = [c \in Callers |-> NoCall]
  /\ engines = [e \in EngineIds |-> "none"]
  /\ sharedEngine = 0
  /\ contexts = [k \in ContextIds |-> NoContext]
  /\ closer = [pc |-> "idle", target |-> 0]
  /\ starts = 0
  /\ overlap = FALSE

NextImporter ==
  \/ \E c \in Callers : BwCallStep(c)
  \/ \E e \in EngineIds : BwEngineDisconnects(e)
  \/ closeBrowser
  \/ CloseBrowserResolves
  \/ CloseBrowserRejects

SpecImporter == InitImporter /\ [][NextImporter]_vars

\* ----------------------------------------------------------- getNestedValue
\* A path is a sequence of tokens: the words stand for their characters, the
\* other tokens are the characters themselves.
Words == {"data", "title", "length", "constructor"}
Digits == {"0", "1"}

\* Segments a mapping can be written with, well-formed and not.
SegmentForms ==
  {<<>>}
    \cup {<<w>> : w \in Words \cup Digits}
    \cup {<<w, "[", d, "]">> : w \in {"data", "title"}, d \in Digits}
    \cup {<<"[", "0", "]">>, <<"title", "[", "]">>, <<"title", "[", "0">>,
          <<"title", "]", "[", "0", "0", "]">>}

\* Longest path explored, in segments.
MaxSegments == 2

RECURSIVE join(_)
join(segments) ==
  IF Len(segments) = 0 THEN <<>>
  ELSE IF Len(segments) = 1 THEN segments[1]
  ELSE segments[1] \o <<".">> \o join(Tail(segments))

Paths ==
  {<<>>} \cup
  {join(segments) :
     segments \in UNION {[1..n -> SegmentForms] : n \in 1..MaxSegments}}

\* JSON documents: scalars, objects and arrays, nested two deep.
Scalars == {JNull, JNum(7), JStr(3)}

Shallow ==
  Scalars
    \cup {JObj("title" :> v) : v \in Scalars}
    \cup {JArr(<<v>>) : v \in Scalars}
    \cup {JObj(<<>>), JArr(<<>>)}

JsonValues ==
  Shallow
    \cup {JObj("data" :> v) : v \in Shallow}
    \cup {JArr(<<JObj("title" :> JStr(3))>>)}

\* x == null
isNullish(v) == v.t \in {"null", "undefined"}

DigitValue(d) == IF d = "1" THEN 1 ELSE 0

\* parseInt(digits, 10) on a string of digits.
RECURSIVE parseInt(_)
parseInt(digits) ==
  IF digits = <<>> THEN 0
  ELSE 10 * parseInt(SubSeq(digits, 1, Len(digits) - 1))
         + DigitValue(digits[Len(digits)])

\* path.split(".")
RECURSIVE split(_)
split(p) ==
  LET dots == {i \in 1..Len(p) : p[i] = "."}
  IN IF dots = {} THEN <<p>>
     ELSE LET i == CHOOSE i \in dots : \A j \in dots : i <= j
          IN <<SubSeq(p, 1, i - 1)>> \o split(SubSeq(p, i + 1, Len(p)))

\* segment.match(/^([^[]+)\[(\d+)\]$/): one or more characters that are not
\* "[", then "[", one or more digits, "]" and the end.
bracketMatch(segment) ==
  LET n == Len(segment)
      opens == {i \in 1..n : segment[i] = "["}
  IN IF opens = {} THEN [matched |-> FALSE]
     ELSE LET i == CHOOSE i \in opens : \A j \in opens : i <= j
          IN IF /\ i >= 2
                /\ n >= i + 2
                /\ segment[n] = "]"
                /\ \A j \in (i + 1)..(n - 1) : segment[j] \in Digits
             THEN [matched |-> TRUE, key |-> SubSeq(segment, 1, i - 1),
                   index |-> parseInt(SubSeq(segment, i + 1, n - 1))]
             ELSE [matched |-> FALSE]

\* A property name that is an array index: digits in canonical form.
isIndexKey(key) ==
  /\ Len(key) >= 1
  /\ \A i \in 1..Len(key) : key[i] \in Digits
  /\ Len(key) = 1 \/ key[1] # "0"

\* A property found on the prototype chain rather than on the value.
inherited(key) == IF key = <<"constructor">> THEN JFunction ELSE JUndefined

\* current[key] as JavaScript evaluates it.
get(v, key) ==
  CASE isNullish(v) -> JTypeError
    [] v.t = "object" ->
         IF Len(key) = 1 /\ key[1] \in DOMAIN v.f THEN v.f[key[1]]
         ELSE inherited(key)
    [] v.t = "array" ->
         IF key = <<"length">> THEN JNum(Len(v.e))
         ELSE IF isIndexKey(key) /\ parseInt(key) < Len(v.e)
              THEN v.e[parseInt(key) + 1]
              ELSE inherited(key)
    [] v.t = "string" ->
         IF key = <<"length">> THEN JNum(v.len)
         ELSE IF isIndexKey(key) /\ parseInt(key) < v.len THEN JStr(1)
              ELSE inherited(key)
    [] v.t = "function" ->
         IF key = <<"length">> THEN JNum(1) ELSE inherited(key)
    [] OTHER -> inherited(key)

\* current[index] on an array.
at(arr, index) == IF index < Len(arr.e) THEN arr.e[index + 1] ELSE JUndefined

\* The for loop over the segments.
RECURSIVE walk(_, _)
walk(current, segments) ==
  IF current.t = "TypeError" THEN current
  ELSE IF segments = <<>> THEN current
  ELSE IF isNullish(current) THEN JUndefined
  ELSE LET segment == Head(segments)
           m == bracketMatch(segment)
       IN IF m.matched
          THEN LET arr == get(current, m.key)
               IN IF isNullish(arr) \/ arr.t # "array" THEN JUndefined
                  ELSE walk(at(arr, m.index), Tail(segments))
          ELSE walk(get(current, segment), Tail(segments))

getNestedValue(o, p) ==
  IF isNullish(o) \/ p = <<>> THEN JUndefined ELSE walk(o, split(p))

InitPath ==
  /\ InitWaterfall
  /\ InitBrowser
  /\ obj \in JsonValues
  /\ path \in Paths
  /\ gnvPc = "called"
  /\ ret = JPending
  /\ InitNoText /\ InitNoLookup /\ InitNoCompare /\ InitNoMatch
  /\ InitNoNormalize

\* The call runs to its return.
GetNestedValueReturns ==
  /\ gnvPc = "called"
  /\ ret' = getNestedValue(obj, path)
  /\ gnvPc' = "returned"
  /\ UNCHANGED <<obj, path, wfVars, bwVars, txVars, skVars, cmVars, alVars,
                 nvVars>>

NextPath == GetNestedValueReturns

SpecPath == InitPath /\ [][NextPath]_vars

\* ----------------------------------------------------- raw text of a page
\* The page body as a sequence of elements, each with the characters of
\* text it holds.
ElementTypes ==
  {"script", "style", "nav", "footer", "header", "noscript", "iframe", "p",
   "table"}

TextLens == {40, 5000}

\* Longest page body explored, in elements.
MaxElements == 2

Docs ==
  UNION {[1..n -> [tag : ElementTypes, len : TextLens]] : n \in 0..MaxElements}

\* $("script, style, nav, footer, header, noscript, iframe").remove()
cheerioRemoved ==
  {"script", "style", "nav", "footer", "header", "noscript", "iframe"}

\* const removeTags = ["script", "style", "nav", "footer", "header"]
browserRemoved == {"script", "style", "nav", "footer", "header"}

\* What is left of the body once the elements of the given types are removed.
strip(d, removed) == SelectSeq(d, LAMBDA e : e.tag \notin removed)

RECURSIVE textLen(_)
textLen(d) == IF d = <<>> THEN 0 ELSE Head(d).len + textLen(Tail(d))

\* The text of what is left, cut by .substring(0, 8000).
rawText(d, removed) ==
  [done |-> TRUE, kept |-> strip(d, removed),
   len |-> Min(textLen(strip(d, removed)), RAW_TEXT_MAX)]

NoText == [done |-> FALSE]

InitText ==
  /\ InitWaterfall
  /\ InitBrowser
  /\ InitNoPath /\ InitNoLookup /\ InitNoCompare /\ InitNoMatch
  /\ InitNoNormalize
  /\ doc \in Docs
  /\ texts = [cheerio |-> NoText, browser |-> NoText]

\* scrapeWithCheerio takes the raw text of the fetched page.
CheerioRawText ==
  /\ ~texts.cheerio.done
  /\ texts' = [texts EXCEPT !.cheerio = rawText(doc, cheerioRemoved)]
  /\ UNCHANGED <<doc, wfVars, bwVars, gpVars, skVars, cmVars, alVars, nvVars>>

\* page.evaluate takes the raw text of the rendered page.
BrowserRawText ==
  /\ ~texts.browser.done
  /\ texts' = [texts EXCEPT !.browser = rawText(doc, browserRemoved)]
  /\ UNCHANGED <<doc, wfVars, bwVars, gpVars, skVars, cmVars, alVars, nvVars>>

NextText == CheerioRawText \/ BrowserRawText

SpecText == InitText /\ [][NextText]_vars

\* --------------------------------------------------------------- source key
\* Text is a sequence of tokens: "https://", "." and "/" stand for themselves,
\* the words for their characters.  notexample.com is the word "not" followed
\* by the word "example", with no dot between them.
Hosts ==
  {<<"example", ".", "com">>,
   <<"www", ".", "example", ".", "com">>,
   <<"not", "example", ".", "com">>,
   <<"shop", ".", "org">>}

Urls ==
  {scheme \o host \o rest :
     scheme \in {<<>>, <<"https://">>},
     host \in Hosts,
     rest \in {<<>>, <<"/", "cars">>, <<"/", "example">>}}

\* siteKey?: "" stands for the argument left out.
SiteKeys == {"", "example", "nosuch"}

\* Profiles found in the config directory; the third has no usable baseUrl.
Profiles ==
  {[key |-> "example", baseUrl |-> <<"https://", "example", ".", "com">>],
   [key |-> "shop", baseUrl |-> <<"https://", "shop", ".", "org">>],
   [key |-> "cars", baseUrl |-> <<>>]}

\* Most profiles in the directory.
MaxProfiles == 2

ConfigDirs ==
  {dir \in UNION {[1..n -> Profiles] : n \in 0..MaxProfiles} :
     \A i, j \in 1..Len(dir) : i # j => dir[i].key # dir[j].key}

\* new URL(text): throws unless the text starts with a scheme; hostname is
\* what lies between the scheme and the first "/".
parseURL(text) ==
  IF Len(text) < 2 \/ text[1] # "https://" THEN [ok |-> FALSE]
  ELSE LET slashes == {i \in 2..Len(text) : text[i] = "/"}
           stop == IF slashes = {} THEN Len(text) + 1
                   ELSE CHOOSE i \in slashes : \A j \in slashes : i <= j
       IN [ok |-> TRUE, hostname |-> SubSeq(text, 2, stop - 1)]

\* s.endsWith(suffix)
endsWith(s, suffix) ==
  /\ Len(suffix) <= Len(s)
  /\ SubSeq(s, Len(s) - Len(suffix) + 1, Len(s)) = suffix

\* url.includes(key), the key being one word.
includes(text, key) == \E i \in 1..Len(text) : text[i] = key

\* urlHost === configHost || urlHost.endsWith("." + configHost)
hostMatches(urlHost, configHost) ==
  urlHost = configHost \/ endsWith(urlHost, <<".">> \o configHost)

\* The loop over Object.entries(configs); "" stands for null.
RECURSIVE detectSiteKey(_, _)
detectSiteKey(url, configs) ==
  IF configs = <<>> THEN ""
  ELSE LET config == Head(configs)
           base == parseURL(config.baseUrl)
           u == parseURL(url)
       IN IF base.ok /\ u.ok
          THEN IF hostMatches(u.hostname, base.hostname) THEN config.key
               ELSE detectSiteKey(url, Tail(configs))
          ELSE IF includes(url, config.key) THEN config.key
               ELSE detectSiteKey(url, Tail(configs))

\* loadSiteConfig(key) !== null: the directory holds a profile of that name.
hasProfile(key, configs) == \E i \in 1..Len(configs) : configs[i].key = key

\* siteKey || detectSiteKey(url, allConfigs) || "unknown", and the profile.
resolveKey(url, siteKey, configs) ==
  LET detected == detectSiteKey(url, configs)
      key == IF siteKey # "" THEN siteKey
             ELSE IF detected # "" THEN detected
             ELSE "unknown"
  IN [done |-> TRUE, key |-> key,
      config |-> key # "unknown" /\ hasProfile(key, configs)]

InitLookup ==
  /\ InitWaterfall
  /\ InitBrowser
  /\ InitNoPath /\ InitNoText /\ InitNoCompare /\ InitNoMatch
  /\ InitNoNormalize
  /\ lookup \in [url : Urls, siteKey : SiteKeys]
  /\ allConfigs \in ConfigDirs
  /\ resolvedKey = [done |-> FALSE]

\* The first three statements of scrapeEvData.
ResolveSourceKey ==
  /\ ~resolvedKey.done
  /\ resolvedKey' = resolveKey(lookup.url, lookup.siteKey, allConfigs)
  /\ UNCHANGED <<lookup, allConfigs, wfVars, bwVars, gpVars, txVars, cmVars,
                 alVars, nvVars>>

NextLookup == ResolveSourceKey

SpecLookup == InitLookup /\ [][NextLookup]_vars

\* ------------------------------------------------- field names (comparator)
\* A field name, a price or a variant is the sequence of its tokens: runs of
\* letters and digits, and single punctuation characters; a spec value is
\* the sequence of its characters.  toLowerCase maps a token to its lower
\* case: the tokens of the inputs that carry capitals, and every capital
\* letter.
toLowerCase(t) ==
  CASE t = "Battery" -> "battery"
    [] t = "Size" -> "size"
    [] t = "kWh" -> "kwh"
    [] t = "BEV" -> "bev"
    [] t = "Electric" -> "electric"
    [] t = "Hybrid" -> "hybrid"
    [] t = "Premium" -> "premium"
    [] t = "AWD" -> "awd"
    [] t = "Base" -> "base"
    [] t = "AED" -> "aed"
    [] t = "Call" -> "call"
    [] t = "TBA" -> "tba"
    [] t = "A" -> "a"
    [] t = "B" -> "b"
    [] t = "C" -> "c"
    [] t = "D" -> "d"
    [] t = "E" -> "e"
    [] t = "F" -> "f"
    [] t = "G" -> "g"
    [] t = "H" -> "h"
    [] t = "I" -> "i"
    [] t = "J" -> "j"
    [] t = "K" -> "k"
    [] t = "L" -> "l"
    [] t = "M" -> "m"
    [] t = "N" -> "n"
    [] t = "O" -> "o"
    [] t = "P" -> "p"
    [] t = "Q" -> "q"
    [] t = "R" -> "r"
    [] t = "S" -> "s"
    [] t = "T" -> "t"
    [] t = "U" -> "u"
    [] t = "V" -> "v"
    [] t = "W" -> "w"
    [] t = "X" -> "x"
    [] t = "Y" -> "y"
    [] t = "Z" -> "z"
    [] OTHER -> t

lowerCase(s) == [i \in 1..Len(s) |-> toLowerCase(s[i])]

\* The characters of a token sequence, as one string.
RECURSIVE text(_)
text(s) == IF s = <<>> THEN "" ELSE Head(s) \o text(Tail(s))

\* replace(/[_\s-]/g, "")
stripSeparators(s) == SelectSeq(s, LAMBDA t : t \notin {"_", " ", "-"})

\* replace(/\(.*?\)/g, ""): every "(" up to the nearest ")" after it; a "("
\* with no ")" after it stays.
RECURSIVE stripParens(_)
stripParens(s) ==
  IF s = <<>> THEN <<>>
  ELSE IF Head(s) = "(" /\ \E i \in 2..Len(s) : s[i] = ")"
  THEN LET close == CHOOSE i \in 2..Len(s) :
                      s[i] = ")" /\ \A j \in 2..(i - 1) : s[j] # ")"
       IN stripParens(SubSeq(s, close + 1, Len(s)))
  ELSE <<Head(s)>> \o stripParens(Tail(s))

FIELD_ALIASES ==
  <<<<<<"battery", "_", "(", "kwh", ")">>, <<"battery", "_", "size">>,
       <<"battery", "_", "capacity">>, <<"engine", "_", "size">>,
       <<"battery">>>>,
     <<<<"seats">>, <<"seating", "_", "capacity">>, <<"seating">>,
       <<"seater">>>>,
     <<<<"drivetrain">>, <<"drive", "_", "type">>,
       <<"driven", "_", "wheels">>>>,
     <<<<"range", "_", "(", "km", ")">>, <<"battery", "_", "range">>,
       <<"range">>, <<"electric", "_", "range">>>>,
     <<<<"wltp", "_", "range", "_", "(", "km", ")">>,
       <<"wltp", "_", "range">>>>,
     <<<<"0", "-", "100", "_", "(", "s", ")">>,
       <<"acceleration", "_", "(", "0", "-", "100", "_", "km", "/", "h", ")">>,
       <<"acceleration">>, <<"0", "-", "100", "_", "kmh">>,
       <<"0", "_", "to", "_", "100">>>>,
     <<<<"top", "_", "speed", "_", "(", "km", "/", "h", ")">>,
       <<"top", "_", "speed">>, <<"max", "_", "speed">>>>,
     <<<<"fuel", "_", "type">>, <<"engine", "_", "type">>, <<"fuel">>>>,
     <<<<"type">>, <<"vehicle", "_", "type">>,
       <<"vehicle", "_", "category">>>>,
     <<<<"body", "_", "type">>, <<"body", "_", "style">>>>,
     <<<<"charging", "_", "(", "kw", "_", "ac", ")">>,
       <<"ac", "_", "charging">>, <<"charging", "_", "ac">>>>,
     <<<<"charging", "_", "(", "kw", "_", "dc", ")">>,
       <<"dc", "_", "charging">>, <<"charging", "_", "dc">>,
       <<"fast", "_", "charging">>>>,
     <<<<"energy", "_", "consumption", "_", "(", "kwh", "/", "100km", ")">>,
       <<"energy", "_", "consumption">>, <<"consumption">>>>,
     <<<<"group">>, <<"brand", "_", "group">>,
       <<"manufacturer", "_", "group">>>>,
     <<<<"price">>, <<"price", "_", "range">>>>,
     <<<<"horsepower">>, <<"horsepower", "_", "(", "bhp", ")">>, <<"power">>,
       <<"max", "_", "power">>>>,
     <<<<"torque">>, <<"max", "_", "torque">>>>,
     <<<<"weight">>, <<"curb", "_", "weight">>, <<"kerb", "_", "weight">>>>,
     <<<<"length">>, <<"overall", "_", "length">>>>,
     <<<<"width">>, <<"overall", "_", "width">>>>,
     <<<<"height">>, <<"overall", "_", "height">>>>,
     <<<<"boot", "_", "space">>, <<"trunk", "_", "space">>,
       <<"cargo", "_", "capacity">>, <<"cargo", "_", "volume">>>>>>

\* normalize of findMatchingKey.
normalize(s) == text(lowerCase(stripParens(stripSeparators(s))))

\* The normal form getFieldAliases compares: separators and case only.
normalized(s) == text(lowerCase(stripSeparators(s)))

\* No group looked up: the field alone.
getFieldAliases_alone(fieldName) == <<fieldName>>

\* The normal forms of the aliases of each group.
aliasForms ==
  [g \in 1..Len(FIELD_ALIASES) |->
     {normalized(FIELD_ALIASES[g][a]) : a \in 1..Len(FIELD_ALIASES[g])}]

\* The first group holding an alias with the field's normal form, else the
\* field alone.
getFieldAliases(fieldName) ==
  LET form == normalized(fieldName)
      RECURSIVE search(_)
      search(g) ==
        IF g > Len(FIELD_ALIASES) THEN <<fieldName>>
        ELSE IF form \in aliasForms[g] THEN FIELD_ALIASES[g]
        ELSE search(g + 1)
  IN search(1)

NoKey == [found |-> FALSE]

\* The first key with the given normal form.
firstKey(ks, form) ==
  LET RECURSIVE search(_)
      search(k) ==
        IF k > Len(ks) THEN NoKey
        ELSE IF normalize(ks[k]) = form THEN [found |-> TRUE, key |-> ks[k]]
        ELSE search(k + 1)
  IN search(1)

\* Direct match first, then the aliases of the target in their order.
findMatchingKey(tgt, ks) ==
  LET direct == firstKey(ks, normalize(tgt))
      aliases == getFieldAliases(tgt)
      RECURSIVE search(_)
      search(a) ==
        IF a > Len(aliases) THEN NoKey
        ELSE LET hit == firstKey(ks, normalize(aliases[a]))
             IN IF hit.found THEN hit ELSE search(a + 1)
  IN IF direct.found THEN direct ELSE search(1)

\* Every declared alias, and field names no group declares: a header in
\* another spelling, one with a qualifier added, one unknown.
AliasNames ==
  {FIELD_ALIASES[g][a] : <<g, a>> \in
     {p \in (1..Len(FIELD_ALIASES)) \X (1..5) : p[2] <= Len(FIELD_ALIASES[p[1]])}}

FieldNames ==
  AliasNames \cup {<<"Battery", " ", "Size">>,
                   <<"battery", "_", "capacity", "_", "(", "kWh", ")">>,
                   <<"colour">>}

MaxKeys == 1

KeyLists == UNION {[1..n -> AliasNames] : n \in 0..MaxKeys}

InitAlias ==
  /\ InitWaterfall
  /\ InitBrowser
  /\ InitNoPath /\ InitNoText /\ InitNoLookup /\ InitNoCompare
  /\ InitNoNormalize
  /\ target \in FieldNames
  /\ keys \in KeyLists
  /\ matchedKey = [done |-> FALSE]

FindMatchingKeyReturns ==
  /\ ~matchedKey.done
  /\ matchedKey' = [done |-> TRUE, key |-> findMatchingKey(target, keys)]
  /\ UNCHANGED <<target, keys, wfVars, bwVars, gpVars, txVars, skVars, cmVars,
                 nvVars>>

NextAlias == FindMatchingKeyReturns

SpecAlias == InitAlias /\ [][NextAlias]_vars

\* ------------------------------------------------ compareEntry (comparator)
VALUE_SYNONYMS ==
  <<[canonical |-> "electric",
     synonyms |-> {"bev", "electric", "battery electric",
                   "battery electric vehicle", "full electric"}],
    [canonical |-> "plug-in hybrid",
     synonyms |-> {"phev", "plug-in hybrid", "plug-in hybrid electric"}],
    [canonical |-> "hybrid", synonyms |-> {"hev", "hybrid", "hybrid electric"}],
    [canonical |-> "fuel cell",
     synonyms |-> {"fcev", "fuel cell", "hydrogen fuel cell"}],
    [canonical |-> "rwd",
     synonyms |-> {"rwd", "rear-wheel drive", "rear wheel drive"}],
    [canonical |-> "fwd",
     synonyms |-> {"fwd", "front-wheel drive", "front wheel drive"}],
    [canonical |-> "awd",
     synonyms |-> {"awd", "4wd", "all-wheel drive", "all wheel drive",
                   "four-wheel drive"}],
    [canonical |-> "automatic",
     synonyms |-> {"automatic", "auto", "at", "cvt", "dct", "single-speed"}],
    [canonical |-> "manual", synonyms |-> {"manual", "mt"}]>>

WhiteSpace == {" ", "\t", "\n"}

RECURSIVE trimStart(_)
trimStart(s) ==
  IF s # <<>> /\ Head(s) \in WhiteSpace THEN trimStart(Tail(s)) ELSE s

RECURSIVE trimEnd(_)
trimEnd(s) ==
  IF s # <<>> /\ s[Len(s)] \in WhiteSpace
  THEN trimEnd(SubSeq(s, 1, Len(s) - 1))
  ELSE s

trim(s) == trimEnd(trimStart(s))

\* The canonical key of the first synonym group holding the lowered, trimmed
\* value, else that value.
getCanonicalValue(val) ==
  LET lower == text(lowerCase(trim(val)))
      RECURSIVE search(_)
      search(g) ==
        IF g > Len(VALUE_SYNONYMS) THEN lower
        ELSE IF lower \in VALUE_SYNONYMS[g].synonyms
        THEN VALUE_SYNONYMS[g].canonical
        ELSE search(g + 1)
  IN search(1)

\* The alternatives of the unit expression in the order it lists them, in
\* lower case (the expression is case-insensitive).
UnitAlternatives ==
  <<<<"a", "e", "d">>,
    <<"u", "s", "d">>,
    <<"e", "u", "r">>,
    <<"s", "a", "r">>,
    <<"k", "m", "/", "h">>,
    <<"k", "w", "h">>,
    <<"k", "m">>,
    <<"h", "p">>,
    <<"b", "h", "p">>,
    <<"k", "w">>,
    <<"k", "g">>,
    <<"m", "m">>,
    <<"n", "m">>,
    <<"s", "e", "c">>,
    <<"s", "e", "a", "t", "e", "r">>,
    <<"s", "e", "a", "t", "s">>,
    <<"s", "e", "a", "t">>>>

Letters ==
  {"a", "b", "c", "d", "e", "f", "g", "h", "i", "j", "k", "l", "m",
   "n", "o", "p", "q", "r", "s", "t", "u", "v", "w", "x", "y", "z"}

Capitals ==
  {"A", "B", "C", "D", "E", "F", "G", "H", "I", "J", "K", "L", "M",
   "N", "O", "P", "Q", "R", "S", "T", "U", "V", "W", "X", "Y", "Z"}

Numerals == {"0", "1", "2", "3", "4", "5", "6", "7", "8", "9"}

WordChars == Letters \cup Capitals \cup Numerals \cup {"_"}

\* No boundary asked for: an alternative matches wherever its letters stand.
wordBoundary_anywhere(s, i) == TRUE

\* \b before position i: a word character on one side only.
wordBoundary(s, i) ==
  (i > 1 /\ s[i - 1] \in WordChars) # (i <= Len(s) /\ s[i] \in WordChars)

\* The length of the first alternative that matches at position i between
\* two boundaries, 0 when none does.
unitAt(s, i) ==
  LET RECURSIVE try(_)
      try(a) ==
        IF a > Len(UnitAlternatives) THEN 0
        ELSE LET unit == UnitAlternatives[a]
             IN IF /\ wordBoundary(s, i)
                   /\ i + Len(unit) - 1 <= Len(s)
                   /\ \A k \in 1..Len(unit) :
                        toLowerCase(s[i + k - 1]) = unit[k]
                   /\ wordBoundary(s, i + Len(unit))
                THEN Len(unit)
                ELSE try(a + 1)
  IN try(1)

\* replace(/\b(...)\b/gi, ""): the matches from left to right, each search
\* resuming after the last match.
RECURSIVE stripUnits(_, _)
stripUnits(s, i) ==
  IF i > Len(s) THEN <<>>
  ELSE LET matched == unitAt(s, i)
       IN IF matched > 0 THEN stripUnits(s, i + matched)
          ELSE <<s[i]>> \o stripUnits(s, i + 1)

\* The units and currency codes, then commas and white space, then case.
normalizeValue(val) ==
  LET units == stripUnits(val, 1)
      separators == SelectSeq(units, LAMBDA c : c \notin {","} \cup WhiteSpace)
  IN text(lowerCase(trim(separators)))

\* The digit groups of the inputs, and the number each one writes.
DigitGroups == {"000", "160", "168", "174", "182", "190", "520"}

groupValue(t) ==
  CASE t = "000" -> 0
    [] t = "160" -> 160
    [] t = "168" -> 168
    [] t = "174" -> 174
    [] t = "182" -> 182
    [] t = "190" -> 190
    [] t = "520" -> 520

\* One match of /[\d]+(?:[.,]\d+)*/ from a digit group on, with its commas
\* removed and parsed; the inputs carry no decimal point.
RECURSIVE matchNumber(_, _)
matchNumber(n, rest) ==
  IF Len(rest) >= 2 /\ rest[1] = "," /\ rest[2] \in DigitGroups
  THEN matchNumber(n * (10 ^ Len(rest[2])) + groupValue(rest[2]),
                   SubSeq(rest, 3, Len(rest)))
  ELSE [n |-> n, rest |-> rest]

RECURSIVE matches(_)
matches(val) ==
  IF val = <<>> THEN <<>>
  ELSE IF Head(val) \in DigitGroups
  THEN LET m == matchNumber(groupValue(Head(val)), Tail(val))
       IN <<m.n>> \o matches(m.rest)
  ELSE matches(Tail(val))

extractNumbers(val) == SelectSeq(matches(val), LAMBDA n : n > 0)

RECURSIVE flat(_)
flat(ss) == IF ss = <<>> THEN <<>> ELSE Head(ss) \o flat(Tail(ss))

Elements(s) == {s[i] : i \in 1..Len(s)}

minOf(ns) == CHOOSE n \in Elements(ns) : \A m \in Elements(ns) : n <= m

maxOf(ns) == CHOOSE n \in Elements(ns) : \A m \in Elements(ns) : n >= m

\* The range taken open at both ends.
comparePriceField_strict(excelValue, scrapedValues) ==
  LET excelNumbers == extractNumbers(excelValue)
      allScrapedPrices ==
        flat([i \in 1..Len(scrapedValues) |->
                extractNumbers(scrapedValues[i].value)])
      verdict ==
        IF scrapedValues = <<>> THEN <<"missing", "no-data">>
        ELSE IF excelNumbers = <<>> THEN <<"mismatch", "excel-unparsed">>
        ELSE IF allScrapedPrices = <<>> THEN <<"mismatch", "scraped-unparsed">>
        ELSE IF /\ excelNumbers[1] > minOf(allScrapedPrices)
                /\ excelNumbers[1] < maxOf(allScrapedPrices)
        THEN <<"match", "within">>
        ELSE <<"mismatch", "outside">>
  IN [excel |-> excelValue, scraped |-> scrapedValues,
      status |-> verdict[1], note |-> verdict[2]]

\* A price with no number on either side reported as missing.
comparePriceField_unparsedMissing(excelValue, scrapedValues) ==
  LET excelNumbers == extractNumbers(excelValue)
      allScrapedPrices ==
        flat([i \in 1..Len(scrapedValues) |->
                extractNumbers(scrapedValues[i].value)])
      verdict ==
        IF scrapedValues = <<>> THEN <<"missing", "no-data">>
        ELSE IF excelNumbers = <<>> THEN <<"missing", "excel-unparsed">>
        ELSE IF allScrapedPrices = <<>> THEN <<"missing", "scraped-unparsed">>
        ELSE IF /\ excelNumbers[1] >= minOf(allScrapedPrices)
                /\ excelNumbers[1] <= maxOf(allScrapedPrices)
        THEN <<"match", "within">>
        ELSE <<"mismatch", "outside">>
  IN [excel |-> excelValue, scraped |-> scrapedValues,
      status |-> verdict[1], note |-> verdict[2]]

\* scrapedValues is the list of [source, value] in insertion order.
comparePriceField(excelValue, scrapedValues) ==
  LET excelNumbers == extractNumbers(excelValue)
      allScrapedPrices ==
        flat([i \in 1..Len(scrapedValues) |->
                extractNumbers(scrapedValues[i].value)])
      verdict ==
        IF scrapedValues = <<>> THEN <<"missing", "no-data">>
        ELSE IF excelNumbers = <<>> THEN <<"mismatch", "excel-unparsed">>
        ELSE IF allScrapedPrices = <<>> THEN <<"mismatch", "scraped-unparsed">>
        ELSE IF /\ excelNumbers[1] >= minOf(allScrapedPrices)
                /\ excelNumbers[1] <= maxOf(allScrapedPrices)
        THEN <<"match", "within">>
        ELSE <<"mismatch", "outside">>
  IN [excel |-> excelValue, scraped |-> scrapedValues,
      status |-> verdict[1], note |-> verdict[2]]

valueMatches(excelValue, scrapedValue) ==
  \/ normalizeValue(excelValue) = normalizeValue(scrapedValue)
  \/ getCanonicalValue(excelValue) = getCanonicalValue(scrapedValue)

\* One matching source enough for a match.
compareField_anyMatch(excelValue, scrapedValues) ==
  LET hasMatch == \E i \in 1..Len(scrapedValues) :
                    valueMatches(excelValue, scrapedValues[i].value)
      verdict ==
        IF scrapedValues = <<>> THEN <<"missing", "no-data">>
        ELSE IF hasMatch THEN <<"match", "none">>
        ELSE <<"mismatch", "no-match">>
  IN [excel |-> excelValue, scraped |-> scrapedValues,
      status |-> verdict[1], note |-> verdict[2]]

\* A field no source supplied reported as an error.
compareField_errorStatus(excelValue, scrapedValues) ==
  LET hasMatch == \E i \in 1..Len(scrapedValues) :
                    valueMatches(excelValue, scrapedValues[i].value)
      hasMismatch == \E i \in 1..Len(scrapedValues) :
                       ~valueMatches(excelValue, scrapedValues[i].value)
      verdict ==
        IF scrapedValues = <<>> THEN <<"error", "no-data">>
        ELSE IF hasMatch /\ ~hasMismatch THEN <<"match", "none">>
        ELSE IF hasMatch /\ hasMismatch THEN <<"mismatch", "some">>
        ELSE <<"mismatch", "no-match">>
  IN [excel |-> excelValue, scraped |-> scrapedValues,
      status |-> verdict[1], note |-> verdict[2]]

compareField(excelValue, scrapedValues) ==
  LET hasMatch == \E i \in 1..Len(scrapedValues) :
                    valueMatches(excelValue, scrapedValues[i].value)
      hasMismatch == \E i \in 1..Len(scrapedValues) :
                       ~valueMatches(excelValue, scrapedValues[i].value)
      verdict ==
        IF scrapedValues = <<>> THEN <<"missing", "no-data">>
        ELSE IF hasMatch /\ ~hasMismatch THEN <<"match", "none">>
        ELSE IF hasMatch /\ hasMismatch THEN <<"mismatch", "some">>
        ELSE <<"mismatch", "no-match">>
  IN [excel |-> excelValue, scraped |-> scrapedValues,
      status |-> verdict[1], note |-> verdict[2]]

\* v.includes(x): x occurs in v as a run of consecutive tokens.
contains(v, x) ==
  \E i \in 0..(Len(v) - Len(x)) : SubSeq(v, i + 1, i + Len(x)) = x

\* object[key] = value, an object being the list of its [key, value] in
\* insertion order: a key already there keeps its place and takes the value.
assign_append(object, key, value) ==
  Append(object, [key |-> key, value |-> value])

assign(object, key, value) ==
  IF \E i \in 1..Len(object) : object[i].key = key
  THEN [i \in 1..Len(object) |->
          IF object[i].key = key THEN [key |-> key, value |-> value]
          ELSE object[i]]
  ELSE Append(object, [key |-> key, value |-> value])

\* scraped[result.source] = value for the results at the kept positions, in
\* their order.
collect(results, kept, values) ==
  LET RECURSIVE upTo(_)
      upTo(i) ==
        IF i = 0 THEN <<>>
        ELSE IF i \in kept
        THEN assign(upTo(i - 1), results[i].source, values[i])
        ELSE upTo(i - 1)
  IN upTo(Len(results))

\* sites.push(result.source) for the results at the kept positions.
pushed(results, kept) ==
  LET RECURSIVE from(_)
      from(i) ==
        IF i > Len(results) THEN <<>>
        ELSE (IF i \in kept THEN <<results[i].source>> ELSE <<>>)
               \o from(i + 1)
  IN from(1)

specKeys(specs) == [i \in 1..Len(specs) |-> specs[i].key]

specValue(specs, key) ==
  specs[CHOOSE i \in 1..Len(specs) : specs[i].key = key].value

\* Found wherever it was found at all.
variantStatus_anyFound(foundOnSites, results) ==
  IF Len(foundOnSites) > 0 THEN "match" ELSE "missing"

variantStatus(foundOnSites, results) ==
  IF Len(foundOnSites) = Len(results) THEN "match"
  ELSE IF Len(foundOnSites) > 0 THEN "partial"
  ELSE "missing"

compareEntry(entry, results) ==
  LET all == 1..Len(results)
      priceScraped ==
        collect(results, {i \in all : results[i].price # <<>>},
                [i \in all |-> results[i].price])
      matchedKeys(specKey) ==
        [i \in all |-> findMatchingKey(specKey, specKeys(results[i].specs))]
      specScraped(specKey) ==
        LET matched == matchedKeys(specKey)
        IN collect(results, {i \in all : matched[i].found},
                   [i \in all |->
                      IF matched[i].found
                      THEN specValue(results[i].specs, matched[i].key)
                      ELSE <<>>])
      variantFound ==
        {i \in all :
           \E v \in 1..Len(results[i].variants) :
             contains(lowerCase(results[i].variants[v]),
                      lowerCase(entry.variant))}
      foundOnSites == pushed(results, variantFound)
      notFoundOnSites == pushed(results, all \ variantFound)
      RECURSIVE fields(_)
      fields(n) ==
        IF n = 0
        THEN assign(<<>>, <<"price">>,
                    comparePriceField(entry.price, priceScraped))
        ELSE assign(fields(n - 1), entry.specs[n].key,
                    compareField(entry.specs[n].value,
                                 specScraped(entry.specs[n].key)))
  IN [done |-> TRUE,
      fields |-> fields(Len(entry.specs)),
      variantCheck |->
        [excel |-> entry.variant,
         foundOnSites |-> foundOnSites,
         notFoundOnSites |-> notFoundOnSites,
         status |-> variantStatus(foundOnSites, results)]]

\* The source keys of one run, in the order of its sites.
SourceNames == <<"siteA", "siteB", "siteC">>

MaxSources == 2

PriceStrings ==
  {<<"168", ",", "000", " ", "AED">>,
   <<"182", ",", "000">>,
   <<"160", ",", "000">>,
   <<"Call", " ", "for", " ", "price">>}

ScrapedSpecs ==
  {<<>>,
   <<[key |-> <<"fuel">>, value |-> <<"H", "y", "b", "r", "i", "d">>]>>,
   <<[key |-> <<"range">>, value |-> <<"5", "2", "0">>]>>,
   <<[key |-> <<"fuel">>, value |-> <<"H", "y", "b", "r", "i", "d">>],
     [key |-> <<"engine", "_", "type">>,
      value |-> <<"E", "l", "e", "c", "t", "r", "i", "c">>]>>}

ScrapedVariants ==
  {<<>>,
   <<<<"Base">>, <<"Premium">>>>}

\* A record of the sheet: a usual one; one with another price, another spec
\* or another variant; one whose spec column is itself headed "price".
Entry ==
  [price |-> <<"174", ",", "000", " ", "-", " ", "190", ",", "000">>,
   specs |-> <<[key |-> <<"fuel", "_", "type">>,
                value |-> <<"B", "E", "V">>]>>,
   variant |-> <<"Premium">>]

ExcelEntries ==
  {[Entry EXCEPT !.price = p] :
     p \in {Entry.price, <<"AED", " ", "182", ",", "000">>, <<"TBA">>}}
    \cup {[Entry EXCEPT !.specs = sp] :
            sp \in {<<[key |-> <<"range", "_", "(", "km", ")">>,
                       value |-> <<"5", "2", "0", " ", "k", "m">>]>>,
                    <<[key |-> <<"price">>,
                       value |-> <<"1", "7", "4", ",", "0", "0", "0">>]>>}}
    \cup {[Entry EXCEPT !.variant = <<"premium", " ", "awd">>]}

\* What one site yields: a complete result; one with another price, other
\* specs or other variants (compareEntry reads the three apart); or what a
\* failed scrape leaves, an empty price, no specs and no variants.
Complete ==
  [price |-> <<"168", ",", "000", " ", "AED">>,
   specs |-> <<[key |-> <<"engine", "_", "type">>,
                value |-> <<"E", "l", "e", "c", "t", "r", "i", "c">>]>>,
   variants |-> <<<<"Premium", " ", "AWD">>>>]

ScrapedData ==
  {[Complete EXCEPT !.price = p] : p \in PriceStrings \cup {<<>>}}
    \cup {[Complete EXCEPT !.specs = sp] : sp \in ScrapedSpecs}
    \cup {[Complete EXCEPT !.variants = vs] : vs \in ScrapedVariants}
    \cup {[price |-> <<>>, specs |-> <<>>, variants |-> <<>>]}

\* The source key of each result: its site's own; or the last result once
\* more under the key of the first (a second URL of one site, or two sites
\* no profile matches, both keyed "unknown").
SourceKeys(n) ==
  {ks \in [1..n -> Elements(SourceNames)] :
     /\ \A i \in 1..(n - 1) : ks[i] = SourceNames[i]
     /\ n > 0 => ks[n] \in {SourceNames[n], SourceNames[1]}}

ScrapedLists ==
  UNION {{[i \in 1..n |-> [source |-> ks[i]] @@ d[i]] :
            d \in [1..n -> ScrapedData], ks \in SourceKeys(n)} :
         n \in 0..MaxSources}

InitCompare ==
  /\ InitWaterfall
  /\ InitBrowser
  /\ InitNoPath /\ InitNoText /\ InitNoLookup /\ InitNoMatch
  /\ InitNoNormalize
  /\ excelEntry \in ExcelEntries
  /\ scrapedResults \in ScrapedLists
  /\ comparison = [done |-> FALSE]

CompareEntryReturns ==
  /\ ~comparison.done
  /\ comparison' = compareEntry(excelEntry, scrapedResults)
  /\ UNCHANGED <<excelEntry, scrapedResults, wfVars, bwVars, gpVars, txVars,
                 skVars, alVars, nvVars>>

NextCompare == CompareEntryReturns

SpecCompare == InitCompare /\ [][NextCompare]_vars

\* -------------------------------------------- normalizeValue (comparator)
\* Values as a sheet or a page writes them: a currency code or nothing
\* before, set apart or not; a name, a number or a unit; a unit or nothing
\* after, set apart or not.
ValuePrefixes ==
  {<<>>,
   <<"A", "E", "D", " ">>,
   <<"A", "E", "D">>,
   <<"u", "s", "d", "_">>}

ValueBodies ==
  {<<"T", "e", "s", "l", "a">>,
   <<"S", "u", "m", "m", "e", "r">>,
   <<"1", "8", "9", ",", "9", "0", "0">>,
   <<"1", "8", "9", "9", "0", "0">>,
   <<"s", "e", "a", "t", "s">>,
   <<"7", "-", "s", "e", "a", "t", "e", "r">>}

ValueSuffixes ==
  {<<" ", "A", "E", "D">>,
   <<" ", "k", "m">>,
   <<"k", "m">>,
   <<" ", "k", "m", "/", "h">>,
   <<" ", "k", "W", "h">>,
   <<"_", "k", "g">>,
   <<>>}

RawValues ==
  {before \o body \o after :
     before \in ValuePrefixes, body \in ValueBodies, after \in ValueSuffixes}

InitNormalize ==
  /\ InitWaterfall
  /\ InitBrowser
  /\ InitNoPath /\ InitNoText /\ InitNoLookup /\ InitNoCompare /\ InitNoMatch
  /\ rawValue \in RawValues
  /\ normalizedValue = [done |-> FALSE]

NormalizeValueReturns ==
  /\ ~normalizedValue.done
  /\ normalizedValue' = [done |-> TRUE, value |-> normalizeValue(rawValue)]
  /\ UNCHANGED <<rawValue, wfVars, bwVars, gpVars, txVars, skVars, cmVars,
                 alVars>>

NextNormalize == NormalizeValueReturns

SpecNormalize == InitNormalize /\ [][NextNormalize]_vars

\* ------------------------------------------------------------------ claims
Tags == Strategies \cup {"skipped-disabled", "none"}

Active == pc \notin {"idle", "returned"}

IsPrefix(a, b) == Len(a) <= Len(b) /\ \A i \in 1..Len(a) : a[i] = b[i]

Occurrences(seq, x) == Cardinality({i \in 1..Len(seq) : seq[i] = x})

\* C1: a scrapeEvData call never ends in a thrown exception and returns
\* exactly one ScrapedData: while it runs nothing has been returned, once it
\* is over exactly one result with a strategy tag has been returned, whatever
\* the strategies did, raised internally or not.
C1_NeverThrows ==
  /\ pc # "thrown"
  /\ Active => returns = 0 /\ result.strategy \notin Tags
  /\ pc = "returned" => returns = 1 /\ result.strategy \in Tags

\* A call in which all three strategies raised internally and that still
\* returned a result.
C1_Witness ==
  /\ pc = "returned"
  /\ caught = Strategies
  /\ returns = 1
  /\ result.strategy = "none"

\* C2: strategies run strictly one after another in the computed order and
\* the first hit is returned: the strategies entered so far are a prefix of
\* the order, every one but the last entered has finished with a miss, at
\* most one is in progress, a hit ends the call with the hitting strategy's
\* tag, and a playwright hit after API and cheerio misses comes third.
C2_Sequential ==
  /\ IsPrefix(tried, order)
  /\ \A i \in 1..Len(tried) : i < Len(tried) => outcome[tried[i]] = "miss"
  /\ \A s \in Strategies :
       /\ outcome[s] = "untried" <=> Occurrences(tried, s) = 0
       /\ outcome[s] = "running" => Active /\ tried[Len(tried)] = s
       /\ outcome[s] = "hit" =>
            /\ pc = "returned"
            /\ tried[Len(tried)] = s
            /\ result.strategy = s
  /\ Cardinality({s \in Strategies : outcome[s] = "running"}) <= 1
  /\ pc = "returned" /\ result.strategy \in Strategies =>
       outcome[result.strategy] = "hit"
  /\ (/\ pc = "returned"
      /\ result.strategy = "playwright"
      /\ outcome["api"] = "miss"
      /\ outcome["cheerio"] = "miss") => Len(tried) = 3

\* The fallthrough scenario: API skipped for want of a descriptor, all three
\* cheerio attempts failed, the browser hit.
C2_Witness ==
  /\ pc = "returned"
  /\ result.strategy = "playwright"
  /\ tried = <<"api", "cheerio", "playwright">>
  /\ ~input.config.apiConfig
  /\ net.api = 0
  /\ failed = 3

Rank(s) == CHOOSE i \in 1..3 : defaultOrder[i] = s

OrderOK(c, o) ==
  LET preferred == IF c.present THEN c.preferredStrategy ELSE ""
  IN /\ Len(o) = 3
     /\ \A s \in Strategies : Occurrences(o, s) = 1
     /\ preferred = "" => o = <<"api", "cheerio", "playwright">>
     /\ preferred # "" =>
          /\ o[1] = preferred
          /\ Rank(o[2]) < Rank(o[3])
     /\ preferred = "cheerio" => o = <<"cheerio", "api", "playwright">>

AllOrdersOK == \A c \in Configs : OrderOK(c, getStrategyOrder(c))

\* C3: getStrategyOrder yields each strategy exactly once, the preferred one
\* first and the others in the default order; both for every profile and for
\* the order a running call works through.
C3_StrategyOrder ==
  /\ AllOrdersOK
  /\ Active => OrderOK(input.config, order)

C3_Witness ==
  /\ pc = "loop"
  /\ input.config.preferredStrategy = "cheerio"
  /\ order = <<"cheerio", "api", "playwright">>

\* C4: a call on a disabled profile has returned the empty skipped-disabled
\* result and has started nothing: no strategy entered, no API request, no
\* fetch attempt, no launch, no context.
C4_DisabledSkips ==
  (input.config.present /\ input.config.disabled) =>
    /\ pc = "returned"
    /\ result = EmptyResult("skipped-disabled")
    /\ tried = <<>>
    /\ \A s \in Strategies : outcome[s] = "untried"
    /\ net = NoNet
    /\ context = "none"
    /\ apiTimer = "unset" /\ chTimer = "unset"

\* A disabled profile for which the API strategy would otherwise have run.
C4_Witness ==
  /\ pc = "returned"
  /\ input.config.present /\ input.config.disabled
  /\ input.config.apiConfig /\ input.brand /\ input.model
  /\ result.strategy = "skipped-disabled"

\* C5: the "none" result is empty and is returned exactly when all three
\* strategies have been entered and have missed.
C5_AllMissNone ==
  /\ (pc = "returned" /\ \A s \in Strategies : outcome[s] = "miss") =>
       result = EmptyResult("none")
  /\ result.strategy = "none" =>
       /\ result = EmptyResult("none")
       /\ Len(tried) = 3
       /\ \A s \in Strategies : outcome[s] = "miss"

\* All misses with real work behind them: three fetch attempts and a
\* browsing context that was opened.
C5_Witness ==
  /\ pc = "returned"
  /\ result.strategy = "none"
  /\ net.fetch = 3
  /\ net.ctx = 1

C7_Terminates == Active ~> (pc = "returned")

\* C8: while an API or cheerio attempt is pending (headers or body), its
\* abort timer is armed.
C8_TimerCoversAttempt ==
  /\ pc \in {"api_fetch", "api_body"} => apiTimer = "armed"
  /\ pc \in {"ch_fetch", "ch_body"} => chTimer = "armed"

\* C9: fetchWithRetry issues at most 3 attempts and stops at the first one
\* that does not fail; the waits are 2000 after the first failure and 4000
\* after the second, none after the third; three failures are a miss.
C9_RetryBackoff ==
  /\ attempts <= 3
  /\ net.fetch = attempts
  /\ failed <= attempts /\ attempts <= failed + 1
  /\ pc \in {"ch_fetch", "ch_body"} => attempts = failed + 1
  /\ pc = "ch_backoff" => attempts = failed /\ attempts < 3
  /\ Len(delays) = (IF failed = 3 THEN 2 ELSE failed)
  /\ \A i \in 1..Len(delays) : delays[i] = 2000 * i
  /\ (outcome["cheerio"] \in {"miss", "hit"} /\ failed = attempts) =>
       /\ attempts = 3
       /\ delays = <<2000, 4000>>
       /\ outcome["cheerio"] = "miss"
       /\ pc # "thrown"

C9_Witness ==
  /\ outcome["cheerio"] = "miss"
  /\ failed = 3
  /\ attempts = 3
  /\ delays = <<2000, 4000>>

\* C10: when scrapeWithCheerio has parsed a page and populated at least one
\* of title, price, specs, variants, the strategy is a hit.
C10_HitIfAnyField ==
  LET anyField == \/ extracted.title
                  \/ extracted.price
                  \/ extracted.specs
                  \/ extracted.variants
  IN (extracted.strategy = "cheerio" /\ anyField) => outcome["cheerio"] = "hit"

\* C11: when scrapeWithCheerio has parsed a page and populated none of
\* title, price, specs, variants, the strategy misses exactly when the raw
\* text has fewer than 100 characters.
C11_RawThreshold ==
  LET anyField == \/ extracted.title
                  \/ extracted.price
                  \/ extracted.specs
                  \/ extracted.variants
  IN (extracted.strategy = "cheerio" /\ ~anyField) =>
       (outcome["cheerio"] = "miss" <=> extracted.rawLen < MIN_RAW_TEXT)

\* C12: once scrapeWithBrowser has returned, on the success path or through
\* its catch block, the browsing context it opened is not open any more: it
\* is closed or a close has been attempted on it; a call that opened none
\* holds none.
C12_ContextClosed ==
  outcome["playwright"] \in {"miss", "hit"} =>
    /\ context \in {"none", "closed", "closeFailed"}
    /\ net.ctx = 0 <=> context = "none"
    /\ net.ctx <= 1

C12_Witness ==
  /\ outcome["playwright"] = "miss"
  /\ "playwright" \in caught
  /\ net.ctx = 1
  /\ context = "closed"

\* C13: no step of a scrapeWithBrowser call changes the state of an engine,
\* except that a completed launch starts a fresh one; an engine becomes
\* closed only in the step in which closeBrowser's close() completes on it.
C13_OnlyCloseBrowserCloses ==
  [][/\ \A e \in EngineIds :
          (engines[e] # "closed" /\ engines'[e] = "closed") =>
            /\ closer.pc = "closing"
            /\ closer.target = e
            /\ closer'.pc = "done"
            /\ calls' = calls
     /\ (calls' # calls) =>
          \A e \in EngineIds :
            \/ engines'[e] = engines[e]
            \/ engines[e] = "none" /\ engines'[e] = "running"]_vars

C13_Witness ==
  /\ starts > 1
  /\ closer.pc = "done"
  /\ \E e \in EngineIds : engines[e] = "closed"
  /\ \E k \in ContextIds : contexts[k].state = "closed"
  /\ \E k \in ContextIds : contexts[k].state = "closeFailed"

\* C14: no engine exists before the first scrapeWithBrowser call; a call
\* starts a launch only when browserInstance is null or not connected; and
\* as long as calls do not overlap and no engine has gone away there is at
\* most one engine, it is the one browserInstance refers to, and every call
\* uses it.
C14_EngineLifecycle ==
  /\ [](starts = 0 => \A e \in EngineIds : engines[e] = "none")
  /\ [][\A c \in Callers :
          (calls[c].pc = "idle" /\ calls'[c].pc = "launch") => notConnected]_vars
  /\ []((~overlap /\ \A e \in EngineIds : engines[e] \in {"none", "running"}) =>
          LET up == {e \in EngineIds : engines[e] = "running"}
          IN /\ Cardinality(up) <= 1
             /\ up # {} => sharedEngine \in up
             /\ up = {} => sharedEngine = 0
             /\ \A c \in Callers :
                  calls[c].browser # 0 => calls[c].browser = sharedEngine
             /\ \A c \in Callers : calls[c].pc = "launch" => up = {})

C14_Witness ==
  /\ ~overlap
  /\ starts = MaxStarts
  /\ {e \in EngineIds : engines[e] # "none"} = {1}
  /\ engines[1] = "running"
  /\ \E c \in Callers : calls[c].pc = "page" /\ calls[c].browser = 1
  /\ Cardinality({k \in ContextIds : contexts[k].engine = 1}) = MaxStarts

\* C15: every launch that completes brings up an engine of its own and makes
\* browserInstance refer to it, whatever browserInstance referred to before;
\* the engine referred to before is left as it is.
C15_EveryLaunchCreates ==
  [][\A c \in Callers :
       (calls[c].pc = "launch" /\ calls'[c].pc = "newContext") =>
         LET e == calls'[c].browser
         IN /\ e \in EngineIds
            /\ engines[e] = "none"
            /\ engines'[e] = "running"
            /\ sharedEngine' = e
            /\ \A f \in EngineIds \ {e} : engines'[f] = engines[f]]_vars

C15_Witness ==
  /\ starts = 2
  /\ engines[1] = "running"
  /\ engines[2] = "running"
  /\ sharedEngine = 2
  /\ \E c, d \in Callers :
       /\ calls[c].browser = 1
       /\ calls[d].browser = 2
       /\ calls[c].pc = "page"
       /\ calls[d].pc = "page"

\* C16: when the server process has exited through its signal handler, no
\* engine it launched is still running.
C16_EngineClosedAtExit ==
  (driver = "server" /\ proc = "exited") =>
    \A e \in EngineIds : engines[e] # "running"

\* C17: every call in flight holds a context of its own that it created, and
\* a step of one call changes no context but that call's own.
C17_ContextsIndependent ==
  /\ [](\A c \in Callers :
          calls[c].ctx # 0 =>
            /\ contexts[calls[c].ctx].owner = c
            /\ \A d \in Callers \ {c} : calls[d].ctx # calls[c].ctx)
  /\ [][\A c \in Callers : \A k \in ContextIds :
          (calls'[c] # calls[c] /\ contexts'[k] # contexts[k]) =>
            /\ contexts'[k].owner = c
            /\ k \in {calls[c].ctx, calls'[c].ctx}]_vars

C17_Witness ==
  \E c, d \in Callers :
    /\ c # d
    /\ calls[c].pc = "idle"
    /\ calls[d].pc = "page"
    /\ contexts[calls[d].ctx].state = "open"
    /\ \E k \in ContextIds :
         /\ contexts[k].owner = c
         /\ contexts[k].state = "closed"
         /\ contexts[k].engine = contexts[calls[d].ctx].engine
         /\ k < calls[d].ctx

ownGet(v, key) ==
  CASE v.t = "object" ->
         IF Len(key) = 1 /\ key[1] \in DOMAIN v.f THEN v.f[key[1]]
         ELSE JUndefined
    [] v.t = "array" ->
         IF key = <<"length">> THEN JNum(Len(v.e))
         ELSE IF isIndexKey(key) /\ parseInt(key) < Len(v.e)
              THEN v.e[parseInt(key) + 1]
              ELSE JUndefined
    [] OTHER -> JUndefined

\* The same descent over own properties only: a scalar has nothing below it.
RECURSIVE resolveOwn(_, _)
resolveOwn(current, segments) ==
  IF segments = <<>> THEN current
  ELSE IF current.t \notin {"object", "array"} THEN JUndefined
  ELSE LET segment == Head(segments)
           m == bracketMatch(segment)
       IN IF m.matched
          THEN LET arr == ownGet(current, m.key)
               IN IF arr.t # "array" THEN JUndefined
                  ELSE resolveOwn(at(arr, m.index), Tail(segments))
          ELSE resolveOwn(ownGet(current, segment), Tail(segments))

\* C19: getNestedValue never throws, returns the value at the path when
\* every segment names an own property or an element of the value it is
\* applied to, and returns undefined when the path is empty or any segment
\* does not (missing key, null or scalar in the middle, bracket index on a
\* non-array, index out of range).
C19_PathResolution ==
  gnvPc = "returned" =>
    /\ ret.t # "TypeError"
    /\ ret = IF path = <<>> THEN JUndefined ELSE resolveOwn(obj, split(path))

\* C20: the raw text of every result scrapeEvData returns is at most 8000
\* characters long.
C20_RawTextBounded ==
  pc = "returned" => result.rawLen <= RAW_TEXT_MAX

\* C21: both page strategies leave the same elements for the raw text, none
\* of them a script, style, nav, header, footer, noscript or iframe, and
\* both cut the text to 8000 characters.
C21_SameRawTextRules ==
  (texts.cheerio.done /\ texts.browser.done) =>
    /\ texts.cheerio.kept = texts.browser.kept
    /\ \A i \in 1..Len(texts.browser.kept) :
         texts.browser.kept[i].tag \notin
           {"script", "style", "nav", "header", "footer", "noscript", "iframe"}
    /\ texts.cheerio.len <= RAW_TEXT_MAX
    /\ texts.browser.len <= RAW_TEXT_MAX

\* Profiles of the directory whose base-URL host is the target URL's host
\* or a parent domain of it.
HostProfiles(url, configs) ==
  {i \in 1..Len(configs) :
     LET base == parseURL(configs[i].baseUrl)
         u == parseURL(url)
     IN /\ base.ok
        /\ u.ok
        /\ \/ u.hostname = base.hostname
           \/ /\ Len(u.hostname) > Len(base.hostname) + 1
              /\ u.hostname[Len(u.hostname) - Len(base.hostname)] = "."
              /\ SubSeq(u.hostname, Len(u.hostname) - Len(base.hostname) + 1,
                        Len(u.hostname)) = base.hostname}

\* C22: the source key is the explicit key when one is given; otherwise the
\* key of a profile whose base-URL host is the target's host or a parent
\* domain of it; otherwise "unknown" with no profile.
C22_SourceKey ==
  resolvedKey.done =>
    IF lookup.siteKey # "" THEN resolvedKey.key = lookup.siteKey
    ELSE IF HostProfiles(lookup.url, allConfigs) # {}
         THEN \E i \in HostProfiles(lookup.url, allConfigs) :
                resolvedKey.key = allConfigs[i].key
         ELSE resolvedKey.key = "unknown" /\ ~resolvedKey.config

\* The declared groups two names share.
Groups == 1..Len(FIELD_ALIASES)

inGroup(name, g) == \E a \in 1..Len(FIELD_ALIASES[g]) : FIELD_ALIASES[g][a] = name

\* C29: alias resolution is symmetric within every declared group: resolving
\* an alias against a source whose only field name is another alias of the
\* same group returns that name (and so it does in the other direction).
C29_AliasSymmetric ==
  (matchedKey.done /\ Len(keys) = 1) =>
    \A g \in Groups :
      (inGroup(target, g) /\ inGroup(keys[1], g)) =>
        matchedKey.key = [found |-> TRUE, key |-> keys[1]]

\* battery_(kwh) resolved against a source that only has engine_size: no
\* direct match, found through the group.
C29_Witness ==
  /\ matchedKey.done
  /\ target = <<"battery", "_", "(", "kwh", ")">>
  /\ keys = <<<<"engine", "_", "size">>>>
  /\ normalize(target) # normalize(keys[1])
  /\ matchedKey.key = [found |-> TRUE, key |-> <<"engine", "_", "size">>]

qualified(name) == \E i \in 1..Len(name) : name[i] = "("

\* C30: a target that differs from a declared alias only by a parenthetical
\* qualifier is expanded into that alias's group, and resolves against a
\* source whose only field name is another alias of the group.
C30_QualifierIgnored ==
  (matchedKey.done /\ Len(keys) = 1) =>
    \A g \in Groups : \A a \in 1..Len(FIELD_ALIASES[g]) :
      (/\ normalize(target) = normalize(FIELD_ALIASES[g][a])
       /\ qualified(target) # qualified(FIELD_ALIASES[g][a])
       /\ inGroup(keys[1], g)) =>
        matchedKey.key = [found |-> TRUE, key |-> keys[1]]

\* The results whose price string is their source's: the last one of each
\* source key that has a price.  The numbers of all those strings.
Priced ==
  {i \in 1..Len(scrapedResults) :
     /\ scrapedResults[i].price # <<>>
     /\ \A j \in (i + 1)..Len(scrapedResults) :
          \/ scrapedResults[j].source # scrapedResults[i].source
          \/ scrapedResults[j].price = <<>>}

ScrapedNumbers ==
  UNION {Elements(extractNumbers(scrapedResults[i].price)) : i \in Priced}

\* fields[name] of the result, and whether the record has a spec so named.
Field(name) ==
  comparison.fields[CHOOSE f \in 1..Len(comparison.fields) :
                      comparison.fields[f].key = name].value

PriceField == Field(<<"price">>)

PriceSpec ==
  \E i \in 1..Len(excelEntry.specs) : excelEntry.specs[i].key = <<"price">>

C24_PriceMissing ==
  (/\ comparison.done
   /\ ~PriceSpec
   /\ \/ \A i \in 1..Len(scrapedResults) : scrapedResults[i].price = <<>>
      \/ ScrapedNumbers = {}
      \/ extractNumbers(excelEntry.price) = <<>>) =>
    PriceField.status = "missing"

\* C25: every field of the result, the price and each spec, is missing
\* exactly when its scraped mapping is empty; with a scraped value it is
\* match or mismatch.
C25_MissingIffEmpty ==
  comparison.done =>
    \A f \in 1..Len(comparison.fields) :
      LET field == comparison.fields[f].value
      IN /\ field.status = "missing" <=> field.scraped = <<>>
         /\ field.scraped # <<>> => field.status \in {"match", "mismatch"}

\* A price supplied by a site, with no number to read in the sheet.
C25_Witness ==
  /\ comparison.done
  /\ extractNumbers(excelEntry.price) = <<>>
  /\ PriceField.scraped # <<>>
  /\ PriceField.status = "mismatch"
  /\ \E f \in 2..Len(comparison.fields) :
       /\ comparison.fields[f].value.scraped = <<>>
       /\ comparison.fields[f].value.status = "missing"

\* Normalized forms equal, or canonical forms equal.
agrees(a, b) ==
  \/ normalizeValue(a) = normalizeValue(b)
  \/ getCanonicalValue(a) = getCanonicalValue(b)

\* The values a result holds under the field names that match a spec of
\* the sheet, and the results that hold one.
held(i, specKey) ==
  {scrapedResults[i].specs[k].value :
     k \in {k \in 1..Len(scrapedResults[i].specs) :
              findMatchingKey(specKey,
                <<scrapedResults[i].specs[k].key>>).found}}

suppliers(specKey) ==
  {i \in 1..Len(scrapedResults) : held(i, specKey) # {}}

Values(object) == {object[i].value : i \in 1..Len(object)}

Keys(object) == {object[i].key : i \in 1..Len(object)}

\* C26: a non-price field is match exactly when some source supplied a value
\* and every supplied value agrees with the authoritative one, mismatch when
\* a supplied value does not agree, missing when no source supplied it.
C26_FieldStatus ==
  comparison.done =>
    \A f \in 1..Len(comparison.fields) :
      comparison.fields[f].key # <<"price">> =>
        LET field == comparison.fields[f].value
            name == comparison.fields[f].key
        IN /\ Keys(field.scraped) =
                {scrapedResults[i].source : i \in suppliers(name)}
           /\ field.status =
                IF suppliers(name) = {} THEN "missing"
                ELSE IF \A v \in Values(field.scraped) : agrees(field.excel, v)
                THEN "match"
                ELSE "mismatch"

\* BEV in the sheet, Electric on one site and Hybrid on another: the first
\* agrees through the synonyms only, the second does not.
C26_Witness ==
  /\ comparison.done
  /\ Len(comparison.fields) = 2
  /\ text(comparison.fields[2].value.excel) = "BEV"
  /\ {text(v) : v \in Values(comparison.fields[2].value.scraped)}
       = {"Electric", "Hybrid"}
  /\ normalizeValue(comparison.fields[2].value.excel) = "bev"
  /\ comparison.fields[2].value.status = "mismatch"

\* The results one of whose variant strings contains the authoritative one,
\* case apart.
FoundOn ==
  {i \in 1..Len(scrapedResults) :
     \E v \in 1..Len(scrapedResults[i].variants) :
       contains(lowerCase(scrapedResults[i].variants[v]),
                lowerCase(excelEntry.variant))}

\* C27: with at least one source, the variant is found on a source exactly
\* when one of its variant strings contains the authoritative variant case
\* apart; the status is match when found on every source, missing when
\* found on none, partial otherwise.
C27_VariantStatus ==
  (comparison.done /\ Len(scrapedResults) >= 1) =>
    /\ Elements(comparison.variantCheck.foundOnSites)
         = {scrapedResults[i].source : i \in FoundOn}
    /\ Elements(comparison.variantCheck.notFoundOnSites)
         = {scrapedResults[i].source : i \in DOMAIN scrapedResults \ FoundOn}
    /\ comparison.variantCheck.status =
         IF FoundOn = DOMAIN scrapedResults THEN "match"
         ELSE IF FoundOn = {} THEN "missing"
         ELSE "partial"

\* Found on one site of two.
C27_Witness ==
  /\ comparison.done
  /\ Len(scrapedResults) = 2
  /\ scrapedResults[1].source # scrapedResults[2].source
  /\ Cardinality(FoundOn) = 1
  /\ comparison.variantCheck.status = "partial"

\* C28: with no scraped source at all the variant status is missing.
C28_NoSourcesMissing ==
  (comparison.done /\ scrapedResults = <<>>) =>
    comparison.variantCheck.status = "missing"

\* C34: a result returned with a real strategy tag carries some data: one of
\* title, price, specs, variants is non-empty or the raw text is non-empty.
C34_HitCarriesData ==
  (pc = "returned" /\ result.strategy \in Strategies) =>
    \/ result.title
    \/ result.price
    \/ result.specs
    \/ result.variants
    \/ result.rawLen > 0

\* C35: when closeBrowser completes while headless-browser calls are under
\* way, it leaves no unreferenced running engine: if every running engine
\* was the one being closed or the one browserInstance referred to, then
\* after the completion every running engine is the one browserInstance
\* refers to.
C35_CloseLeavesNoOrphan ==
  [][(/\ closer.pc = "closing"
      /\ closer'.pc = "done"
      /\ \A e \in EngineIds :
           engines[e] = "running" => e \in {closer.target, sharedEngine}) =>
       \A e \in EngineIds : engines'[e] = "running" => e = sharedEngine']_vars

\* C36: resolution never crosses alias groups: a target taken from one
\* group of FIELD_ALIASES is not matched to a source's only field name when
\* that name is taken from another group.
C36_NoCrossGroupMatch ==
  (matchedKey.done /\ Len(keys) = 1) =>
    \A g, h \in Groups :
      (g # h /\ inGroup(target, g) /\ inGroup(keys[1], h)) =>
        ~matchedKey.key.found

\* C39: a 2xx response whose body is read ends the retry loop even when the
\* body is empty: the strategy misses after that attempt with no further
\* fetch and no backoff; a further attempt is made only from the backoff
\* that follows a failed attempt.
C39_EmptyBodyNoRetry ==
  /\ [][(/\ pc = "ch_body"
        /\ pc' # "ch_body"
        /\ failed' = failed
        /\ extracted' = NoResult) =>
          /\ outcome'["cheerio"] = "miss"
          /\ pc' = "loop"
          /\ attempts' = attempts
          /\ delays' = delays
          /\ net' = net]_vars
  /\ [][(pc = "ch_body" /\ pc' = "ch_backoff") => failed' = failed + 1]_vars
  /\ [][(attempts' > attempts /\ attempts >= 1) =>
          /\ pc = "ch_backoff"
          /\ failed = attempts
          /\ Len(delays) = attempts]_vars

\* One attempt, answered 2xx with an empty body: nothing caught, nothing
\* extracted, no wait, a miss.
C39_Witness ==
  /\ outcome["cheerio"] = "miss"
  /\ attempts = 1
  /\ net.fetch = 1
  /\ failed = 0
  /\ delays = <<>>
  /\ "cheerio" \notin caught
  /\ extracted = NoResult

\* The last of the given results that carries the source key.
lastOf(sourceKey, results) ==
  CHOOSE i \in results :
    /\ scrapedResults[i].source = sourceKey
    /\ \A j \in results :
         scrapedResults[j].source = sourceKey => j <= i

\* C31: in every field of the result the scraped mapping has one entry per
\* source key at most; the entry of a source key is the price of the last
\* result of that key that has one, or, for a spec, one of the values the
\* last result of that key holds under a matching field name.
C31_OneValuePerSource ==
  comparison.done =>
    \A f \in 1..Len(comparison.fields) :
      LET name == comparison.fields[f].key
          scraped == comparison.fields[f].value.scraped
          isPrice == name = <<"price">> /\ ~PriceSpec
          from == IF isPrice
                  THEN {i \in 1..Len(scrapedResults) :
                          scrapedResults[i].price # <<>>}
                  ELSE suppliers(name)
      IN /\ Cardinality(Keys(scraped)) = Len(scraped)
         /\ Keys(scraped) = {scrapedResults[i].source : i \in from}
         /\ \A e \in 1..Len(scraped) :
              LET last == lastOf(scraped[e].key, from)
              IN IF isPrice
                 THEN scraped[e].value = scrapedResults[last].price
                 ELSE scraped[e].value \in held(last, name)

\* Two results under one source key, each with a price and with field
\* names matching the spec: one entry per field, from the second result,
\* which holds both fuel and engine_type.
C31_Witness ==
  /\ comparison.done
  /\ Len(scrapedResults) = 2
  /\ scrapedResults[1].source = scrapedResults[2].source
  /\ scrapedResults[1].price # <<>>
  /\ Len(scrapedResults[2].specs) = 2
  /\ PriceField.scraped =
       <<[key |-> scrapedResults[1].source, value |-> scrapedResults[2].price]>>
  /\ Field(<<"fuel", "_", "type">>).scraped =
       <<[key |-> scrapedResults[1].source,
          value |-> <<"E", "l", "e", "c", "t", "r", "i", "c">>]>>

\* C33: compareEntry returns for every record and every list of results: a
\* field for the price and for every spec of the record, each match,
\* mismatch or missing, and a variant status match, partial or missing.
C33_CompareTotal ==
  comparison.done =>
    /\ Keys(comparison.fields) = {<<"price">>} \cup Keys(excelEntry.specs)
    /\ Cardinality(Keys(comparison.fields)) = Len(comparison.fields)
    /\ \A f \in 1..Len(comparison.fields) :
         comparison.fields[f].value.status \in {"match", "mismatch", "missing"}
    /\ comparison.variantCheck.status \in {"match", "partial", "missing"}

\* One source whose scrape failed: empty price, no specs, no variants.
C33_Witness ==
  /\ comparison.done
  /\ Len(scrapedResults) = 1
  /\ scrapedResults[1].price = <<>>
  /\ scrapedResults[1].specs = <<>>
  /\ scrapedResults[1].variants = <<>>
  /\ Len(comparison.fields) = 2
  /\ \A f \in 1..2 : comparison.fields[f].value.status = "missing"
  /\ comparison.variantCheck.status = "missing"

\* C37: fields["price"] is the range comparison of the record's price with
\* the sources' price strings, whatever the record's specs are named.
C37_PriceFieldIsRange ==
  comparison.done =>
    /\ PriceField.excel = excelEntry.price
    /\ Values(PriceField.scraped) = {scrapedResults[i].price : i \in Priced}
    /\ (extractNumbers(excelEntry.price) # <<>> /\ ScrapedNumbers # {}) =>
         (PriceField.status = "match" <=>
            /\ \E lo \in ScrapedNumbers : lo <= extractNumbers(excelEntry.price)[1]
            /\ \E hi \in ScrapedNumbers : extractNumbers(excelEntry.price)[1] <= hi)

\* How often a source key stands in a list.
count(sites, sourceKey) ==
  Cardinality({i \in 1..Len(sites) : sites[i] = sourceKey})

\* C38: each source key of the scraped results stands exactly once in
\* foundOnSites and notFoundOnSites taken together.
C38_SourceListedOnce ==
  comparison.done =>
    \A i \in 1..Len(scrapedResults) :
      count(comparison.variantCheck.foundOnSites, scrapedResults[i].source)
        + count(comparison.variantCheck.notFoundOnSites,
                scrapedResults[i].source) = 1

UnitWords ==
  {"aed", "usd", "eur", "sar", "kwh", "km", "hp", "bhp", "kw", "kg", "mm",
   "nm", "sec", "seater", "seats", "seat"}

\* Characters a..b of a value are a word: word characters with none before
\* and none after.  The word as written in lower case.
isWord(s, a, b) ==
  /\ \A k \in a..b : s[k] \in WordChars
  /\ a = 1 \/ s[a - 1] \notin WordChars
  /\ b = Len(s) \/ s[b + 1] \notin WordChars

spelt(s, a, b) == text(lowerCase(SubSeq(s, a, b)))

\* The positions of the words that are a unit or a currency code, and of
\* "km/h" where km and h are words.
unitPositions(s) ==
  {k \in 1..Len(s) :
     \E a \in 1..k, b \in k..Len(s) :
       \/ isWord(s, a, b) /\ spelt(s, a, b) \in UnitWords
       \/ /\ b = a + 3
          /\ isWord(s, a, a + 1)
          /\ isWord(s, b, b)
          /\ spelt(s, a, b) = "km/h"}

\* The value in lower case without those positions, commas and white space.
wholeWordsRemoved(s) ==
  LET units == unitPositions(s)
      RECURSIVE pick(_)
      pick(i) ==
        IF i > Len(s) THEN <<>>
        ELSE IF i \in units \/ s[i] \in {","} \cup WhiteSpace THEN pick(i + 1)
        ELSE <<s[i]>> \o pick(i + 1)
  IN text(lowerCase(pick(1)))

\* C32: normalizeValue removes the unit and currency tokens that stand as
\* whole words and no part of another word: Tesla gives tesla, and
\* AED 189,900, 189,900, 189,900 AED and 189900 all give 189900.
C32_WholeWordsOnly ==
  normalizedValue.done =>
    /\ normalizedValue.value = wholeWordsRemoved(rawValue)
    /\ text(rawValue) = "Tesla" => normalizedValue.value = "tesla"
    /\ text(rawValue) \in {"AED 189,900", "189,900", "189,900 AED", "189900"}
         => normalizedValue.value = "189900"

\* A name between a currency code and a unit, each set apart by a space.
C32_Witness ==
  /\ normalizedValue.done
  /\ text(rawValue) = "AED Tesla km"
  /\ normalizedValue.value = "tesla"

====
